---------------------------- MODULE Spec2Model ----------------------------
(***************************************************************************)
(* A model of the analytical core of PRISM (krunal16-c/prism):             *)
(*   - the risk scores of backend/funding_optimizer_service.py and         *)
(*     backend/risk_engine.py,                                             *)
(*   - FundingOptimizerService.optimize_budget, the three-tier greedy      *)
(*     budget allocation.                                                  *)
(*                                                                         *)
(* Units.  Money is counted in units of $1M, so risk_cost_ratio            *)
(* = risk_score / (cost / 1_000_000) is the rational risk_score / cost; a  *)
(* ratio is kept as a pair [num, den] and compared by cross               *)
(* multiplication (the rounding of the float division is not modelled).    *)
(* The bridge score adds 0.3 points per year, so bridge                    *)
(* scores are kept in tenths of a point; the overall_score of              *)
(* risk_engine.py has weights 0.25 x 0.7, so it is kept in thousandths.    *)
(***************************************************************************)
EXTENDS Integers, Sequences, FiniteSets, TLC

VARIABLES
    pc,               \* "idle" before the call of a behaviour, "returned" after it
    cached_bridges,   \* CachedBridgeLocation rows of the region, as scored
    cached_roads,     \* CachedRoadCondition rows of the region, as scored
    call,             \* the arguments of the optimize_budget call, or NoValue
    result,           \* the OptimizationResult returned, or NoValue
    trace,            \* what the greedy loops did, in order (observation only)
    risk_input,       \* the road row / bridge dict / asset handed to a score
    risk_score,       \* the score returned for risk_input, or NoValue
    segment,          \* the road segment and the horizon handed to the forecaster
    predicted_pci,    \* the dict forecast_pci returned, or NoValue
    intervention,     \* what find_optimal_intervention returned, or NoValue
    road_list,        \* the "roads" get_road_conditions hands to the corridor service
    corridor_call,    \* the corridor operation called and its arguments, or NoValue
    corridor_result,  \* the list the corridor operation returned, or NoValue
    winter_roads,     \* the "roads" get_road_conditions hands to the winter service
    winter_province,  \* the province analyze_winter_vulnerability is called for
    vulnerabilities,  \* the list analyze_winter_vulnerability returned, or NoValue
    road_table,       \* the rows of CachedRoadCondition, in insertion order
    bridge_table,     \* the rows of CachedBridgeLocation, in insertion order
    now,              \* datetime.now(timezone.utc), in units of 24 hours
    repo_call,        \* the last analysis invoked against the tables, or NoValue
    calls,            \* how many analyses were invoked against the tables
    assets,           \* the rows of the assets table, as crud.get_assets returns them
    request,          \* the OptimizationRequest posted to /api/optimize, or NoValue
    response,         \* what the endpoint returned, or NoValue
    threads,          \* where each concurrent invocation stands, and what it holds
    _road_service,    \* the module-level singleton of the road service: 0 for None, else its creator
    db_isolation,     \* how the database isolates writers: serialized or read_committed
    write_lock,       \* the thread whose write transaction holds the database, or 0
    table_at_start    \* the rows of CachedRoadCondition before the invocations

optVars == <<cached_bridges, cached_roads, call, result, trace>>
riskVars == <<risk_input, risk_score>>
forecastVars == <<segment, predicted_pci, intervention>>
corridorVars == <<road_list, corridor_call, corridor_result>>
winterVars == <<winter_roads, winter_province, vulnerabilities>>
repoVars == <<road_table, bridge_table, now, repo_call, calls>>
apiVars == <<assets, request, response>>
concurrentVars == <<threads, _road_service, db_isolation, write_lock, table_at_start>>
vars == <<pc, optVars, riskVars, forecastVars, corridorVars, winterVars, repoVars, apiVars,
         concurrentVars>>

\* what the operations of one part of the program leave alone
outsideOptimize == <<riskVars, forecastVars, corridorVars, winterVars, repoVars, apiVars, concurrentVars>>
outsideRisk == <<optVars, forecastVars, corridorVars, winterVars, repoVars, apiVars, concurrentVars>>
outsideForecast == <<optVars, riskVars, corridorVars, winterVars, repoVars, apiVars, concurrentVars>>
outsideCorridor == <<optVars, riskVars, forecastVars, winterVars, repoVars, apiVars, concurrentVars>>
outsideWinter == <<optVars, riskVars, forecastVars, corridorVars, repoVars, apiVars, concurrentVars>>
outsideRepository == <<optVars, riskVars, forecastVars, corridorVars, winterVars, apiVars, concurrentVars>>
outsideApi == <<optVars, riskVars, forecastVars, corridorVars, winterVars, repoVars, concurrentVars>>
\* the concurrent invocations write road_table
outsideConcurrent == <<pc, optVars, riskVars, forecastVars, corridorVars, winterVars, apiVars,
                       bridge_table, now, repo_call, calls>>

\* Python's None (an absent column, a missing dict key, "not yet returned").
NoValue == "None"

Max(a, b) == IF a >= b THEN a ELSE b
Min(a, b) == IF a <= b THEN a ELSE b

RECURSIVE SumSeq(_, _)
\* sum(f(x) for x in s), f given as the name of a field of x
SumSeq(s, fld) == IF s = <<>> THEN 0 ELSE s[1][fld] + SumSeq(Tail(s), fld)

\* round(n / d) to an integer, ties to even, for n >= 0 and d > 0
RoundHalfEven(n, d) ==
    LET q == n \div d
        r == n % d
    IN  IF 2 * r < d THEN q
        ELSE IF 2 * r > d THEN q + 1
        ELSE IF q % 2 = 0 THEN q ELSE q + 1

(***************************************************************************)
(* Bounds of the model.                                                    *)
(***************************************************************************)
\* most rows (bridges and roads together) cached for the region
MaxSegments == 2
\* largest budget of a call, in $1M
MaxBudget == 4

\* A cached row is kept as the two values get_bridges_for_optimization and
\* get_roads_for_optimization compute from it: its risk score and its
\* estimated repair cost.
\* Risk scores of cached rows: below every threshold, medium, exactly 70,
\* exactly 85, critical.
RowRiskScores == {54, 60, 70, 85, 90}
\* Estimated repair costs of cached rows, in $1M.  A bridge's cost is a
\* regional base cost of at least $2.7M times factors of at least 0.7, so it
\* is never 0; a road's is a cost per km times the section's length and
\* rounds to 0 for a section shorter than a metre.
BridgeCosts == {1, 2}
RoadCosts == {0, 1, 2}
BridgeRows == [risk_score : RowRiskScores, cost : BridgeCosts]
RoadSectionRows == [risk_score : RowRiskScores, cost : RoadCosts]

(***************************************************************************)
(* optimize_budget                                                         *)
(***************************************************************************)
\* rcr = risk_score / (repair_cost / 1_000_000) if repair_cost > 0 else 0
RiskCostRatio(risk, cost) ==
    IF cost > 0 THEN [num |-> risk, den |-> cost] ELSE [num |-> 0, den |-> 1]

\* a < b for two ratios with positive denominators
RcrLess(a, b) == a.num * b.den < b.num * a.den

\* Scored with is_high_risk set from risk_score >= 70
Scored_HighAt70(kind, i, row) ==
    [ id |-> <<kind, i>>,
      kind |-> kind,
      risk_score |-> row.risk_score,
      estimated_repair_cost |-> row.cost,
      risk_cost_ratio |-> IF row.cost > 0
                          THEN [num |-> row.risk_score, den |-> row.cost]
                          ELSE [num |-> 0, den |-> 1],
      is_critical |-> row.risk_score > 85,
      is_high_risk |-> row.risk_score >= 70 ]

\* One BridgeForOptimization / RoadSectionForOptimization.  id is the row's
\* kind and its position in the cache query's result (the input order).
Scored(kind, i, row) ==
    [ id |-> <<kind, i>>,
      kind |-> kind,
      risk_score |-> row.risk_score,
      estimated_repair_cost |-> row.cost,
      risk_cost_ratio |-> RiskCostRatio(row.risk_score, row.cost),
      is_critical |-> row.risk_score > 85,
      is_high_risk |-> row.risk_score > 70 ]

RECURSIVE ScoreRows(_, _, _, _)
\* the loop of get_bridges_for_optimization / get_roads_for_optimization:
\* rows i..Len(rows) with risk_score >= min_risk_score, in input order
ScoreRows(kind, rows, i, min_risk_score) ==
    IF i > Len(rows) THEN <<>>
    ELSE (IF rows[i].risk_score >= min_risk_score
          THEN <<Scored(kind, i, rows[i])>> ELSE <<>>)
         \o ScoreRows(kind, rows, i + 1, min_risk_score)

\* get_bridges_for_optimization without its risk_score >= min_risk_score test
get_bridges_for_optimization_Unfiltered(rows, min_risk_score) ==
    ScoreRows("bridge", rows, 1, 0)

get_bridges_for_optimization(rows, min_risk_score) ==
    ScoreRows("bridge", rows, 1, min_risk_score)

get_roads_for_optimization(rows, min_risk_score) ==
    ScoreRows("road", rows, 1, min_risk_score)

RECURSIVE InsertByRcr(_, _)
\* x put into the descending list s behind every element whose ratio is >= x's
InsertByRcr(x, s) ==
    IF s = <<>> THEN <<x>>
    ELSE IF RcrLess(s[1].risk_cost_ratio, x.risk_cost_ratio)
         THEN <<x>> \o s
         ELSE <<s[1]>> \o InsertByRcr(x, Tail(s))

RECURSIVE SortByRcr_Ascending(_)
\* SortByRcr without reverse=True: ascending
SortByRcr_Ascending(s) ==
    IF s = <<>> THEN <<>>
    ELSE LET rest == SortByRcr_Ascending(SubSeq(s, 1, Len(s) - 1))
             x == s[Len(s)]
             before == SelectSeq(rest,
                          LAMBDA y : ~RcrLess(x.risk_cost_ratio, y.risk_cost_ratio))
             after == SelectSeq(rest,
                          LAMBDA y : RcrLess(x.risk_cost_ratio, y.risk_cost_ratio))
         IN  before \o <<x>> \o after

RECURSIVE SortByRcr(_)
\* list.sort(key=risk_cost_ratio, reverse=True): descending and stable
SortByRcr(s) ==
    IF s = <<>> THEN <<>>
    ELSE InsertByRcr(s[Len(s)], SortByRcr(SubSeq(s, 1, Len(s) - 1)))

\* what one turn of a greedy loop is recorded as
Offer(item, tier, remaining, funded) ==
    [ item |-> item, tier |-> tier,
      remaining_before |-> remaining, funded |-> funded ]

Select(st, item) ==
    IF item.kind = "bridge"
    THEN [st EXCEPT !.selected_bridges = Append(@, item)]
    ELSE [st EXCEPT !.selected_roads = Append(@, item)]

Unfund(st, item) ==
    IF item.kind = "bridge"
    THEN [st EXCEPT !.unfunded_critical_bridges = Append(@, item)]
    ELSE [st EXCEPT !.unfunded_critical_roads = Append(@, item)]

\* Affordable with the comparison turned round
Affordable_Inverted(item, remaining_budget) ==
    item.estimated_repair_cost >= remaining_budget

\* the test of every greedy loop: cost <= remaining_budget
Affordable(item, remaining_budget) ==
    item.estimated_repair_cost <= remaining_budget

RECURSIVE FundCritical_Break(_, _)
\* FundCritical leaving its loop at the first item it cannot afford
FundCritical_Break(items, st) ==
    IF items = <<>> THEN st
    ELSE LET item == items[1]
             ok == Affordable(item, st.remaining_budget)
             logged == [st EXCEPT !.offers =
                           Append(@, Offer(item, "critical", st.remaining_budget, ok))]
         IN  IF ok
             THEN FundCritical_Break(Tail(items),
                      [Select(logged, item) EXCEPT
                          !.remaining_budget = @ - item.estimated_repair_cost])
             ELSE Unfund(logged, item)

RECURSIVE FundCritical(_, _)
\* for item in critical_...: fund it if affordable, else record it unfunded
FundCritical(items, st) ==
    IF items = <<>> THEN st
    ELSE LET item == items[1]
             ok == Affordable(item, st.remaining_budget)
             logged == [st EXCEPT !.offers =
                           Append(@, Offer(item, "critical", st.remaining_budget, ok))]
         IN  FundCritical(Tail(items),
                 IF ok
                 THEN [Select(logged, item) EXCEPT
                          !.remaining_budget = @ - item.estimated_repair_cost]
                 ELSE Unfund(logged, item))

RECURSIVE FundPool(_, _, _)
\* for item in high_risk_items / other_items: fund it if affordable
FundPool(items, tier, st) ==
    IF items = <<>> THEN st
    ELSE LET item == items[1]
             ok == Affordable(item, st.remaining_budget)
             logged == [st EXCEPT !.offers =
                           Append(@, Offer(item, tier, st.remaining_budget, ok))]
         IN  FundPool(Tail(items), tier,
                 IF ok
                 THEN [Select(logged, item) EXCEPT
                          !.remaining_budget = @ - item.estimated_repair_cost]
                 ELSE logged)

IsCritical(x) == x.is_critical
IsHighOnly(x) == x.is_high_risk /\ ~x.is_critical
\* a third tier that takes the high-risk items of the second again
IsOther_NotCritical(x) == ~x.is_critical
IsOther(x) == ~x.is_high_risk

\* the state of the selection before the first loop
SelectionStart(budget) ==
    [ selected_bridges |-> <<>>, selected_roads |-> <<>>,
      unfunded_critical_bridges |-> <<>>, unfunded_critical_roads |-> <<>>,
      remaining_budget |-> budget, offers |-> <<>>, after_critical |-> budget ]

\* 1. critical bridges, then critical roads, each list sorted by ratio;
\* after_critical notes the budget left when both loops are through
CriticalTier(bridges, roads, st) ==
    LET done == FundCritical(SortByRcr(SelectSeq(roads, IsCritical)),
                    FundCritical(SortByRcr(SelectSeq(bridges, IsCritical)), st))
    IN  [done EXCEPT !.after_critical = done.remaining_budget]

\* HighRiskTier without the sort of the merged list
HighRiskTier_Unmerged(bridges, roads, st) ==
    FundPool(SortByRcr(SelectSeq(bridges, IsHighOnly))
             \o SortByRcr(SelectSeq(roads, IsHighOnly)),
             "high", st)

\* 2. the high-risk bridges and roads, merged and sorted by ratio
HighRiskTier(bridges, roads, st) ==
    FundPool(SortByRcr(SortByRcr(SelectSeq(bridges, IsHighOnly))
                       \o SortByRcr(SelectSeq(roads, IsHighOnly))),
             "high", st)

\* 3. the other bridges and roads, only with include_medium_risk
OtherTier(bridges, roads, include_medium_risk, st) ==
    IF include_medium_risk
    THEN FundPool(SortByRcr(SortByRcr(SelectSeq(bridges, IsOther))
                            \o SortByRcr(SelectSeq(roads, IsOther))),
                  "other", st)
    ELSE st

\* the warnings of a non-empty run, in the order the code appends them
Warnings(st) ==
    (IF st.unfunded_critical_bridges # <<>>
     THEN << [ text |-> "Budget insufficient for critical bridge(s)",
               count |-> Len(st.unfunded_critical_bridges),
               requiring |-> SumSeq(st.unfunded_critical_bridges,
                                    "estimated_repair_cost") ] >>
     ELSE <<>>)
    \o
    (IF st.unfunded_critical_roads # <<>>
     THEN << [ text |-> "Budget insufficient for critical road section(s)",
               count |-> Len(st.unfunded_critical_roads),
               requiring |-> SumSeq(st.unfunded_critical_roads,
                                    "estimated_repair_cost") ] >>
     ELSE <<>>)

\* the result of a run that found no bridge and no road
EmptyResult(budget) ==
    [ selected_bridges |-> <<>>, selected_roads |-> <<>>,
      total_bridges_selected |-> 0, total_roads_selected |-> 0,
      total_cost |-> 0, budget_remaining |-> budget,
      budget_utilization_percent |-> 0,
      total_risk_reduction |-> 0, risk_reduction_percent |-> 0,
      avg_risk_score |-> 0,
      critical_bridges_funded |-> 0, critical_bridges_unfunded |-> 0,
      unfunded_critical_bridges |-> <<>>,
      critical_roads_funded |-> 0, critical_roads_unfunded |-> 0,
      unfunded_critical_roads |-> <<>>,
      warnings |-> << [ text |-> "No infrastructure found for optimization in this region",
                        count |-> 0, requiring |-> 0 ] >> ]

\* the metrics and the OptimizationResult of a non-empty run; the three
\* rounded values (round(x, 1)) are in tenths.  The lists hold the items
\* themselves: their dicts (_bridge_to_dict, _road_to_dict) keep the id, the
\* cost and the two flags.
Metrics(bridges, roads, budget, st) ==
    LET total_cost == budget - st.remaining_budget
        total_risk_reduction ==
            SumSeq(st.selected_bridges, "risk_score")
            + SumSeq(st.selected_roads, "risk_score")
        max_possible_reduction ==
            SumSeq(bridges, "risk_score") + SumSeq(roads, "risk_score")
        all_selected == st.selected_bridges \o st.selected_roads
    IN  [ selected_bridges |-> st.selected_bridges,
          selected_roads |-> st.selected_roads,
          total_bridges_selected |-> Len(st.selected_bridges),
          total_roads_selected |-> Len(st.selected_roads),
          total_cost |-> total_cost,
          budget_remaining |-> st.remaining_budget,
          budget_utilization_percent |->
              IF budget > 0 THEN RoundHalfEven(total_cost * 1000, budget) ELSE 0,
          total_risk_reduction |-> total_risk_reduction,
          risk_reduction_percent |->
              IF max_possible_reduction > 0
              THEN RoundHalfEven(total_risk_reduction * 1000, max_possible_reduction)
              ELSE 0,
          avg_risk_score |->
              IF all_selected # <<>>
              THEN RoundHalfEven(SumSeq(all_selected, "risk_score") * 10,
                                 Len(all_selected))
              ELSE 0,
          critical_bridges_funded |->
              Len(SelectSeq(st.selected_bridges, IsCritical)),
          critical_bridges_unfunded |-> Len(st.unfunded_critical_bridges),
          unfunded_critical_bridges |-> st.unfunded_critical_bridges,
          critical_roads_funded |->
              Len(SelectSeq(st.selected_roads, IsCritical)),
          critical_roads_unfunded |-> Len(st.unfunded_critical_roads),
          unfunded_critical_roads |-> st.unfunded_critical_roads,
          warnings |-> Warnings(st) ]

\* min_risk = 55 if include_medium_risk else 70
MinRisk(include_medium_risk) == IF include_medium_risk THEN 55 ELSE 70

\* the population the run works on
Population(c) ==
    [ bridges |-> get_bridges_for_optimization(cached_bridges,
                                               MinRisk(c.include_medium_risk)),
      roads |-> IF c.include_roads
                THEN get_roads_for_optimization(cached_roads,
                                                MinRisk(c.include_medium_risk))
                ELSE <<>> ]

\* RunTiers with the high-risk pool funded before the critical tier
RunTiers_HighFirst(bridges, roads, budget, include_medium_risk) ==
    OtherTier(bridges, roads, include_medium_risk,
        CriticalTier(bridges, roads,
            HighRiskTier(bridges, roads, SelectionStart(budget))))

\* the three tiers in the order the code runs them
RunTiers(bridges, roads, budget, include_medium_risk) ==
    OtherTier(bridges, roads, include_medium_risk,
        HighRiskTier(bridges, roads,
            CriticalTier(bridges, roads, SelectionStart(budget))))

\* One call of FundingOptimizerService.optimize_budget.
optimize_budget(budget, include_medium_risk, include_roads) ==
    LET c == [ budget |-> budget, include_medium_risk |-> include_medium_risk,
               include_roads |-> include_roads ]
        pop == Population(c)
        bridges == pop.bridges
        roads == pop.roads
        st == RunTiers(bridges, roads, budget, include_medium_risk)
    IN  /\ pc = "idle"
        /\ pc' = "returned"
        /\ call' = c
        /\ IF bridges = <<>> /\ roads = <<>>
           THEN /\ result' = EmptyResult(budget)
                /\ trace' = [ offers |-> <<>>, empty |-> TRUE,
                              after_critical |-> budget ]
           ELSE /\ result' = Metrics(bridges, roads, budget, st)
                /\ trace' = [ offers |-> st.offers, empty |-> FALSE,
                              after_critical |-> st.after_critical ]
        /\ UNCHANGED <<cached_bridges, cached_roads, outsideOptimize>>

InitOptimize ==
    /\ \E nb \in 0..MaxSegments, nr \in 0..MaxSegments :
          /\ nb + nr <= MaxSegments
          /\ cached_bridges \in [1..nb -> BridgeRows]
          /\ cached_roads \in [1..nr -> RoadSectionRows]
    /\ pc = "idle"
    /\ call = NoValue
    /\ result = NoValue
    /\ trace = NoValue
    /\ risk_input = NoValue
    /\ risk_score = NoValue
    /\ segment = NoValue
    /\ predicted_pci = NoValue
    /\ intervention = NoValue
    /\ road_list = <<>>
    /\ corridor_call = NoValue
    /\ corridor_result = NoValue
    /\ winter_roads = <<>>
    /\ winter_province = NoValue
    /\ vulnerabilities = NoValue
    /\ road_table = <<>>
    /\ bridge_table = <<>>
    /\ now = 0
    /\ repo_call = NoValue
    /\ calls = 0
    /\ assets = <<>>
    /\ request = NoValue
    /\ response = NoValue
    /\ threads = <<>>
    /\ _road_service = 0
    /\ db_isolation = NoValue
    /\ write_lock = 0
    /\ table_at_start = <<>>

NextOptimize ==
    \E budget \in 0..MaxBudget, include_medium_risk \in BOOLEAN,
       include_roads \in BOOLEAN :
        optimize_budget(budget, include_medium_risk, include_roads)

SpecOptimize == InitOptimize /\ [][NextOptimize]_vars


(***************************************************************************)
(* Risk scores                                                             *)
(*                                                                         *)
(* An optional value is <<>> (Python's None) or <<v>>.  A bridge dict's    *)
(* condition_index is <<>>, <<"num", v>> (a number, as the live source     *)
(* delivers it) or <<"str", v>> (the text of v, as the cache stores it).   *)
(* IRI is in tenths (4.0 is 40).  now is datetime.now().year.              *)
(***************************************************************************)
None == <<>>
Some(v) == <<v>>

\* CONDITION_RISK_SCORES.get(condition, 50)
CONDITION_RISK_SCORES(condition) ==
    CASE condition = "Critical" -> 90
      [] condition = "Poor" -> 72
      [] condition = "Fair" -> 45
      [] condition = "Good" -> 20
      [] condition = "Unknown" -> 50
      [] OTHER -> 50

\* Clamp without the clamping
Clamp_None(base_score, per_point) == base_score

\* min(100, max(0, base_score)), in units of 1/per_point
Clamp(base_score, per_point) == Min(100 * per_point, Max(0, base_score))

\* pci_risk with the inversion forgotten
PciRisk_NotInverted(pci) == pci

\* pci_risk = 100 - road.pci
PciRisk(pci) == 100 - pci

\* FundingOptimizerService._calculate_road_risk_score, in points
_calculate_road_risk_score(road) ==
    LET condition == IF road.condition = None THEN "Unknown" ELSE road.condition[1]
        base0 == CONDITION_RISK_SCORES(condition)
        base1 == IF road.pci # None THEN Max(base0, PciRisk(road.pci[1])) ELSE base0
        base2 == IF road.iri # None
                 THEN (IF road.iri[1] > 40 THEN base1 + 15
                       ELSE IF road.iri[1] > 25 THEN base1 + 8 ELSE base1)
                 ELSE base1
        base3 == IF road.dmi # None
                 THEN (IF road.dmi[1] > 70 THEN base2 + 10
                       ELSE IF road.dmi[1] > 50 THEN base2 + 5 ELSE base2)
                 ELSE base2
        base4 == IF road.aadt # None
                 THEN (IF road.aadt[1] > 50000 THEN base3 + 10
                       ELSE IF road.aadt[1] > 20000 THEN base3 + 5 ELSE base3)
                 ELSE base3
    IN  Clamp(base4, 1)

\* Python's truth value of a bridge dict's condition_index
Truthy(condition_index) ==
    /\ condition_index # None
    /\ (condition_index[1] = "num" => condition_index[2] # 0)

\* _calculate_risk_score with the condition index applied before the age
\* penalty
_calculate_risk_score_IndexFirst(bridge) ==
    LET condition == IF bridge.condition = None THEN "None" ELSE bridge.condition[1]
        label == CASE condition = "Critical" -> 900 [] condition = "Poor" -> 720
                   [] condition = "Fair" -> 450 [] condition = "Good" -> 200
                   [] OTHER -> 500
        index == bridge.condition_index
        larger == IF index # <<>> /\ (index[1] = "num" => index[2] # 0)
                     /\ 10 * (100 - index[2]) > label
                  THEN 10 * (100 - index[2]) ELSE label
        age == bridge.now - bridge.year_built[2]
        sum == IF bridge.year_built # <<>> /\ bridge.year_built[1] = "year" /\ age > 30
               THEN larger + (IF (age - 30) * 3 < 200 THEN (age - 30) * 3 ELSE 200)
               ELSE larger
    IN  IF sum > 1000 THEN 1000 ELSE IF sum < 0 THEN 0 ELSE sum

\* FundingOptimizerService._calculate_risk_score, in tenths of a point.
\* year_built is <<>>, <<"text", 0>> (text that int() rejects, such as the
\* live source's default "Unknown") or <<"year", y>>.
_calculate_risk_score(bridge) ==
    LET condition == IF bridge.condition = None THEN "None" ELSE bridge.condition[1]
        base0 == 10 * CONDITION_RISK_SCORES(condition)
        year_built == bridge.year_built
        age == bridge.now - year_built[2]
        base1 == IF year_built # None /\ year_built[1] = "year" /\ age > 30
                 THEN base0 + Min(200, (age - 30) * 3)
                 ELSE base0
        condition_index == bridge.condition_index
        base2 == IF Truthy(condition_index)
                 THEN Max(base1, 10 * (100 - condition_index[2]))
                 ELSE base1
    IN  Clamp(base2, 10)

\* risk_engine.calculate_risk_score: its overall_score, in thousandths
calculate_risk_score(asset) ==
    LET year_built == IF asset.year_built = None \/ asset.year_built = Some(0)
                      THEN 1980 ELSE asset.year_built[1]
        age == asset.now - year_built
        age_factor == Min(age, 100)
        ci == IF asset.condition_index = None \/ asset.condition_index = Some(0)
              THEN 50 ELSE asset.condition_index[1]
        condition_risk == 100 - ci
        \* condition_score in tenths
        condition_score == condition_risk * 7 + age_factor * 3
        usage == IF asset.daily_usage = None THEN 0 ELSE asset.daily_usage[1]
        usage_score == IF usage > 20000 THEN 100
                       ELSE IF usage > 10000 THEN 80
                       ELSE IF usage > 5000 THEN 60
                       ELSE IF usage > 1000 THEN 40
                       ELSE 20
        climate_score == 50
                         + (IF asset.climate_zone = "Coastal Atlantic" THEN 20 ELSE 0)
                         + (IF asset.type = "bridge" THEN 10 ELSE 0)
        redundancy_score == IF asset.redundancy_available THEN 0 ELSE 100
        pop_score == IF asset.serves_essential_services THEN 100
                     ELSE IF asset.criticality = "high" THEN 80
                     ELSE 50
        overall == condition_score * 25
                   + (usage_score * 20 + climate_score * 20
                      + redundancy_score * 15 + pop_score * 20) * 10
    IN  Clamp(overall, 1000)

\* the inputs the scores are applied to
ConditionLabels == {None, Some("Good"), Some("Fair"), Some("Poor"),
                    Some("Critical"), Some("Unknown")}
NowYears == {2025, 2026}
PciValues == {-10, 0, 10, 28, 40, 55, 80, 100, 110}
IriValues == {20, 25, 26, 40, 41}
DmiValues == {50, 51, 70, 71}
AadtValues == {20000, 20001, 50000, 50001}
YearsBuilt == {1890, 1929, 1930, 1960, 1995, 1996, 2030}
ConditionIndexes == {-20, 0, 5, 10, 50, 100, 130}

RoadRows ==
    [ kind : {"road"},
      condition : ConditionLabels,
      pci : {None} \cup {Some(v) : v \in PciValues},
      iri : {None} \cup {Some(v) : v \in IriValues},
      dmi : {None} \cup {Some(v) : v \in DmiValues},
      aadt : {None} \cup {Some(v) : v \in AadtValues} ]

BridgeDicts ==
    [ kind : {"bridge"},
      condition : ConditionLabels,
      year_built : {None, <<"text", 0>>}
                   \cup {<<"year", y>> : y \in YearsBuilt},
      condition_index : {None}
                        \cup {<<t, v>> : t \in {"num", "str"},
                                         v \in ConditionIndexes},
      now : NowYears ]

Assets ==
    [ kind : {"asset"},
      type : {"bridge", "road"},
      year_built : {None} \cup {Some(y) : y \in {0, 1900, 2020, 2100}},
      condition_index : {None} \cup {Some(v) : v \in {-100, 0, 50, 100, 1000}},
      daily_usage : {None} \cup {Some(v) : v \in {1000, 1001, 5001, 10001, 20001}},
      criticality : {"high", "low"},
      redundancy_available : BOOLEAN,
      climate_zone : {"Coastal Atlantic", "Prairie"},
      serves_essential_services : BOOLEAN,
      now : NowYears ]

\* what a score is returned as: the value and its unit (parts per point)
Returned(kind, score, per_point) ==
    [ kind |-> kind, score |-> score, per_point |-> per_point ]

ScoreRoad ==
    /\ pc = "idle"
    /\ risk_input.kind = "road"
    /\ risk_score' = Returned("road", _calculate_road_risk_score(risk_input), 1)
    /\ pc' = "returned"
    /\ UNCHANGED <<risk_input, outsideRisk>>

ScoreBridge ==
    /\ pc = "idle"
    /\ risk_input.kind = "bridge"
    /\ risk_score' = Returned("bridge", _calculate_risk_score(risk_input), 10)
    /\ pc' = "returned"
    /\ UNCHANGED <<risk_input, outsideRisk>>

ScoreAsset ==
    /\ pc = "idle"
    /\ risk_input.kind = "asset"
    /\ risk_score' = Returned("asset", calculate_risk_score(risk_input), 1000)
    /\ pc' = "returned"
    /\ UNCHANGED <<risk_input, outsideRisk>>

InitRisk ==
    /\ pc = "idle"
    /\ risk_input \in RoadRows \cup BridgeDicts \cup Assets
    /\ risk_score = NoValue
    /\ cached_bridges = <<>>
    /\ cached_roads = <<>>
    /\ call = NoValue
    /\ result = NoValue
    /\ trace = NoValue
    /\ segment = NoValue
    /\ predicted_pci = NoValue
    /\ intervention = NoValue
    /\ road_list = <<>>
    /\ corridor_call = NoValue
    /\ corridor_result = NoValue
    /\ winter_roads = <<>>
    /\ winter_province = NoValue
    /\ vulnerabilities = NoValue
    /\ road_table = <<>>
    /\ bridge_table = <<>>
    /\ now = 0
    /\ repo_call = NoValue
    /\ calls = 0
    /\ assets = <<>>
    /\ request = NoValue
    /\ response = NoValue
    /\ threads = <<>>
    /\ _road_service = 0
    /\ db_isolation = NoValue
    /\ write_lock = 0
    /\ table_at_start = <<>>

NextRisk == ScoreRoad \/ ScoreBridge \/ ScoreAsset

SpecRisk == InitRisk /\ [][NextRisk]_vars


(***************************************************************************)
(* Degradation forecast (backend/road_degradation_service.py)              *)
(*                                                                         *)
(* A PCI handed in or returned is in tenths of a point (55.0 is 550).      *)
(* The factors of calculate_degradation_rate have one decimal (the age     *)
(* factor two), so a rate, and the running PCI of forecast_pci that is     *)
(* not rounded, is in millionths of a point (55.0 is 55000000).  The       *)
(* arithmetic is exact where the code's is floating point: a running PCI   *)
(* exactly half-way between two tenths is rounded to the even one, where   *)
(* the float sum lies a hair to one side or the other.                     *)
(***************************************************************************)
MaxYears == 5

\* PAVEMENT_BASE_DEGRADATION.get(pavement_type, -5.0), in tenths
PAVEMENT_BASE_DEGRADATION(pavement_type) ==
    CASE pavement_type = "AC" -> -45
      [] pavement_type = "PCC" -> -25
      [] pavement_type = "COMP" -> -35
      [] pavement_type = "ST" -> -60
      [] pavement_type = "GRAVEL" -> -80
      [] pavement_type = "UNKNOWN" -> -50
      [] OTHER -> -50

\* CLIMATE_DEGRADATION_FACTORS.get(climate_zone, 1.0), in tenths
CLIMATE_DEGRADATION_FACTORS(climate_zone) ==
    CASE climate_zone = "arctic" -> 15
      [] climate_zone = "cold" -> 13
      [] climate_zone = "moderate" -> 10
      [] climate_zone = "mild" -> 8
      [] climate_zone = "mountain" -> 14
      [] OTHER -> 10

\* PROVINCE_CLIMATE_ZONES.get(province, ClimateZone.MODERATE)
PROVINCE_CLIMATE_ZONES(province) ==
    CASE province = "British Columbia" -> "mild"
      [] province \in {"Alberta", "Saskatchewan", "Manitoba",
                       "Newfoundland and Labrador"} -> "cold"
      [] province \in {"Yukon", "Northwest Territories", "Nunavut"} -> "arctic"
      [] OTHER -> "moderate"

\* the multiplier of the traffic volume, in tenths; aadt is None or Some(n)
get_traffic_factor(aadt) ==
    LET n == IF aadt = None THEN 15000 ELSE aadt[1]
    IN  IF n < 5000 THEN 8
        ELSE IF n < 15000 THEN 10
        ELSE IF n < 30000 THEN 13
        ELSE IF n < 50000 THEN 16
        ELSE IF n < 100000 THEN 20
        ELSE 25

\* the acceleration of the degradation below PCI 70, in tenths; pci in
\* millionths
get_pci_acceleration_factor(pci) ==
    IF pci >= 70000000 THEN 10
    ELSE IF pci >= 60000000 THEN 12
    ELSE IF pci >= 50000000 THEN 15
    ELSE IF pci >= 40000000 THEN 18
    ELSE 22

\* a rate that lost its sign and the age factor
calculate_degradation_rate_Positive(current_pci, pavement_type, climate_zone, aadt, pavement_age) ==
    Min(12000000, Max(2000000,
        (0 - PAVEMENT_BASE_DEGRADATION(pavement_type))
            * CLIMATE_DEGRADATION_FACTORS(climate_zone)
            * get_traffic_factor(aadt)
            * get_pci_acceleration_factor(current_pci) * 100))

\* the annual rate, negative, in millionths of a point per year;
\* maintenance_score is left at its default 1.0 by every caller
calculate_degradation_rate(current_pci, pavement_type, climate_zone, aadt, pavement_age) ==
    LET base_rate == PAVEMENT_BASE_DEGRADATION(pavement_type)
        climate_factor == CLIMATE_DEGRADATION_FACTORS(climate_zone)
        traffic_factor == get_traffic_factor(aadt)
        pci_factor == get_pci_acceleration_factor(current_pci)
        age_factor ==
            IF pavement_age = None THEN 100
            ELSE IF pavement_age[1] > 20 THEN 130
            ELSE IF pavement_age[1] > 15 THEN 115
            ELSE IF pavement_age[1] > 10 THEN 100
            ELSE 90
        final_rate == base_rate * climate_factor * traffic_factor
                          * pci_factor * age_factor
    IN  Max(-12000000, Min(-2000000, final_rate))



\* no floor
FloorAtZero_None(pci) == pci

\* max(0, pci)
FloorAtZero(pci) == Max(0, pci)

\* `pavement_age + year if pavement_age else None`: an age of 0 is dropped
AgeInYear(pavement_age, year) ==
    IF pavement_age # None /\ pavement_age[1] # 0
    THEN Some(pavement_age[1] + year)
    ELSE None

\* the dict {year: predicted_pci} for the years 0..years, in tenths; year 0 is
\* current_pci as handed in, the later years are round(pci, 1) of the running
\* pci, which itself is never rounded
forecast_pci(current_pci, years, pavement_type, climate_zone, aadt, pavement_age) ==
    LET pci[year \in 0..years] ==
            IF year = 0 THEN current_pci * 100000
            ELSE FloorAtZero(pci[year - 1]
                     + calculate_degradation_rate(pci[year - 1], pavement_type,
                           climate_zone, aadt, AgeInYear(pavement_age, year)))
    IN  [year \in 0..years |->
            IF year = 0 THEN current_pci
            ELSE RoundHalfEven(pci[year], 100000)]

\* costs that fall as the pavement gets worse
get_cost_per_m2_Inverted(pci) ==
    IF pci >= 700 THEN 65 ELSE IF pci >= 500 THEN 45 ELSE IF pci >= 300 THEN 25 ELSE 8

\* get_cost_per_m2 of find_optimal_intervention, in $/m2; pci in tenths
get_cost_per_m2(pci) ==
    IF pci >= 700 THEN 8
    ELSE IF pci >= 500 THEN 25
    ELSE IF pci >= 300 THEN 45
    ELSE 65

\* cost of one km of lane: get_cost_per_m2(pci) * area_per_km, in $
CostPerKm(pci) == get_cost_per_m2(pci) * 3700

RECURSIVE DiscountedCost(_, _)
\* cost / 1.03 ** year of the repair at this pci, in units of $0.1 and
\* truncated after each division by 1.03; two discounted costs the code
\* compares differ by 3% or more, so the truncation changes no comparison
DiscountedCost(pci, year) ==
    IF year = 0 THEN CostPerKm(pci) * 10
    ELSE (DiscountedCost(pci, year - 1) * 100) \div 103

\* the greatest year where the least is meant
FirstOf_Last(hits) ==
    IF hits = {} THEN <<>>
    ELSE <<CHOOSE y \in hits : \A z \in hits : y >= z>>

\* the least year of a set of years of a forecast dict, the one a
\* `for year, pci in forecast.items(): if hit: ... break` loop stops at; None
\* when the loop runs to its end
FirstOf(hits) ==
    IF hits = {} THEN None
    ELSE Some(CHOOSE y \in hits : \A z \in hits : y <= z)

\* the first year whose pci is <= limit
FirstYearAtMost(forecast, limit) ==
    FirstOf({y \in DOMAIN forecast : forecast[y] <= limit})

\* the first year whose pci is < limit
FirstYearBelow(forecast, limit) ==
    FirstOf({y \in DOMAIN forecast : forecast[y] < limit})



\* (optimal_year, optimal_pci, cost_now, cost_optimal, cost_delayed) for a
\* forecast dict; costs in $ per km of lane
find_optimal_intervention(forecast, current_pci) ==
    LET years == Cardinality(DOMAIN forecast) - 1
        stop == FirstYearAtMost(forecast, 250)
        last == IF stop = None THEN years ELSE stop[1] - 1
        \* the three locals after the iteration of the first loop for year y
        loop[y \in -1..last] ==
            IF y = -1
            THEN [ optimal_year |-> 0, optimal_pci |-> current_pci,
                   min_lifecycle_cost |-> None ]
            ELSE LET pci == forecast[y]
                     discounted_cost == DiscountedCost(pci, y)
                     before == loop[y - 1]
                 IN  IF /\ pci >= 650
                        /\ pci <= 750
                        /\ \/ before.min_lifecycle_cost = None
                           \/ discounted_cost < before.min_lifecycle_cost[1]
                     THEN [ optimal_year |-> y, optimal_pci |-> pci,
                            min_lifecycle_cost |-> Some(discounted_cost) ]
                     ELSE before
        found == loop[last]
        hits70 == FirstYearAtMost(forecast, 700)
        optimal ==
            IF found.optimal_year = 0 /\ hits70 # None
            THEN [ optimal_year |-> hits70[1], optimal_pci |-> forecast[hits70[1]] ]
            ELSE [ optimal_year |-> found.optimal_year,
                   optimal_pci |-> found.optimal_pci ]
        hits30 == FirstYearAtMost(forecast, 300)
        delayed_pci == IF hits30 = None THEN 300 ELSE forecast[hits30[1]]
    IN  [ optimal_year |-> optimal.optimal_year,
          optimal_pci |-> optimal.optimal_pci,
          cost_now |-> CostPerKm(current_pci),
          cost_optimal |-> CostPerKm(optimal.optimal_pci),
          cost_delayed |-> CostPerKm(delayed_pci) ]

\* `x or default` for an optional number: None and 0 give the default
OrDefault(x, default) ==
    IF x = None THEN default
    ELSE IF x[1] = 0 THEN default
    ELSE x[1]

\* `x or default` for an optional text: None and "" give the default
OrDefaultText(x, default) ==
    IF x = None THEN default
    ELSE IF x[1] = "" THEN default
    ELSE x[1]

\* the DegradationForecast forecast_degradation builds for one road dict of
\* the list get_road_conditions returned
DegradationForecast(road, province, years) ==
    LET climate_zone == PROVINCE_CLIMATE_ZONES(province)
        current_pci == OrDefault(road.pci, 700)
        pavement_type == OrDefaultText(road.pavement_type, "AC")
        aadt == OrDefault(road.aadt, 15000)
        pavement_age == OrDefault(road.pavement_age, 10)
        pci_forecast == forecast_pci(current_pci, years, pavement_type,
                                     climate_zone, Some(aadt), Some(pavement_age))
        critical == FirstYearBelow(pci_forecast, 400)
        opt == find_optimal_intervention(pci_forecast, current_pci)
        rate == calculate_degradation_rate(current_pci * 100000, pavement_type,
                    climate_zone, Some(aadt), Some(pavement_age))
    IN  [ current_pci |-> current_pci,
          predicted_pci |-> pci_forecast,
          years_to_critical |-> IF critical = None THEN years + 1 ELSE critical[1],
          optimal_intervention_year |-> opt.optimal_year,
          optimal_intervention_pci |-> opt.optimal_pci,
          estimated_cost_now |-> opt.cost_now,
          estimated_cost_optimal |-> opt.cost_optimal,
          estimated_cost_delayed |-> opt.cost_delayed,
          cost_savings_optimal |-> opt.cost_delayed - opt.cost_optimal,
          \* round(rate, 2), in hundredths of a point per year
          degradation_rate |-> 0 - RoundHalfEven(0 - rate, 10000) ]



\* the arguments of a direct call of forecast_pci
PciStarts == {0, 1, 260, 400, 550, 640, 690, 710, 760, 1000}
PavementTypes == {"AC", "PCC", "COMP", "ST", "GRAVEL", "UNKNOWN"}
ClimateZones == {"arctic", "cold", "moderate", "mild", "mountain"}
AadtArgs == {None} \cup {Some(n) : n \in {4000, 10000, 15000, 40000, 60000, 120000}}
AgeArgs == {None} \cup {Some(n) : n \in {0, 8, 14, 19}}
ForecastArgs ==
    [ kind : {"args"},
      current_pci : PciStarts,
      years : 0..MaxYears,
      pavement_type : PavementTypes,
      climate_zone : ClimateZones,
      aadt : AadtArgs,
      pavement_age : AgeArgs ]

\* a road dict of get_road_conditions with the arguments of the
\* forecast_degradation call it is forecast under
RoadDicts ==
    [ kind : {"road"},
      pci : {None} \cup {Some(n) : n \in {0, 350, 550, 710, 900}},
      pavement_type : {None, Some(""), Some("AC"), Some("PCC")},
      aadt : {None} \cup {Some(n) : n \in {0, 15000, 60000}},
      pavement_age : {None} \cup {Some(n) : n \in {0, 18}},
      province : {"Ontario", "Alberta", "Yukon", "British Columbia", "Atlantis"},
      years : 0..MaxYears ]

\* forecast_pci called with the arguments of segment
CallForecastPci ==
    /\ pc = "idle"
    /\ segment.kind = "args"
    /\ predicted_pci' = forecast_pci(segment.current_pci, segment.years,
                            segment.pavement_type, segment.climate_zone,
                            segment.aadt, segment.pavement_age)
    /\ pc' = "forecast"
    /\ UNCHANGED <<segment, intervention, outsideForecast>>

\* find_optimal_intervention called with the dict forecast_pci returned
CallFindOptimalIntervention ==
    /\ pc = "forecast"
    /\ intervention' = find_optimal_intervention(predicted_pci, segment.current_pci)
    /\ pc' = "returned"
    /\ UNCHANGED <<segment, predicted_pci, outsideForecast>>

\* the body of the loop of forecast_degradation for the road dict of segment
ForecastRoad ==
    /\ pc = "idle"
    /\ segment.kind = "road"
    /\ LET f == DegradationForecast(segment, segment.province, segment.years)
       IN  /\ predicted_pci' = f.predicted_pci
           /\ intervention' = f
    /\ pc' = "returned"
    /\ UNCHANGED <<segment, outsideForecast>>

InitForecast ==
    /\ pc = "idle"
    /\ segment \in ForecastArgs \cup RoadDicts
    /\ predicted_pci = NoValue
    /\ intervention = NoValue
    /\ cached_bridges = <<>>
    /\ cached_roads = <<>>
    /\ call = NoValue
    /\ result = NoValue
    /\ trace = NoValue
    /\ risk_input = NoValue
    /\ risk_score = NoValue
    /\ road_list = <<>>
    /\ corridor_call = NoValue
    /\ corridor_result = NoValue
    /\ winter_roads = <<>>
    /\ winter_province = NoValue
    /\ vulnerabilities = NoValue
    /\ road_table = <<>>
    /\ bridge_table = <<>>
    /\ now = 0
    /\ repo_call = NoValue
    /\ calls = 0
    /\ assets = <<>>
    /\ request = NoValue
    /\ response = NoValue
    /\ threads = <<>>
    /\ _road_service = 0
    /\ db_isolation = NoValue
    /\ write_lock = 0
    /\ table_at_start = <<>>

NextForecast == CallForecastPci \/ CallFindOptimalIntervention \/ ForecastRoad

SpecForecast == InitForecast /\ [][NextForecast]_vars


(***************************************************************************)
(* Corridor optimization (backend/corridor_optimization_service.py)        *)
(*                                                                         *)
(* A km post or a length is in hundredths of a km (12 km is 1200), a PCI   *)
(* in tenths of a point, money in $.  A value rounded to one decimal,      *)
(* total_length_km for one, is in tenths.                                  *)
(***************************************************************************)
MaxRoads == 3

MOBILIZATION_COST == 250000
\* COST_PER_KM_INDIVIDUAL = 550000, per hundredth of a km
COST_PER_KM_INDIVIDUAL == 5500
\* COST_PER_KM_BUNDLED = 470000, per hundredth of a km
COST_PER_KM_BUNDLED == 4700
FEDERAL_FUNDING_THRESHOLD == 20000000

\* RoadSection.length_km
length_km(s) == IF s.km_end >= s.km_start THEN s.km_end - s.km_start
                ELSE s.km_start - s.km_end

\* RoadSection.needs_repair
needs_repair(s) == s.pci < 700

\* the key _get_road_sections groups the road dicts by
GroupKey(road) == <<road.highway, road.direction>>

RECURSIVE KeysInOrder(_)
\* the keys of a dict filled in the order of s, in insertion order; s is a
\* sequence of keys
KeysInOrder(s) ==
    IF s = <<>> THEN <<>>
    ELSE LET before == KeysInOrder(SubSeq(s, 1, Len(s) - 1))
         IN  IF \E i \in DOMAIN before : before[i] = s[Len(s)]
             THEN before
             ELSE Append(before, s[Len(s)])

RECURSIVE AssignKm(_, _)
\* the RoadSections of the road dicts of one highway and direction; a dict
\* without km posts (None, or both 0) gets a synthetic 5 km section at
\* current_km, and the next one starts 0.5 km further
AssignKm(roads, current_km) ==
    IF roads = <<>> THEN <<>>
    ELSE LET road == roads[1]
             synthetic == \/ road.km_start = None
                          \/ road.km_end = None
                          \/ (road.km_start = Some(0) /\ road.km_end = Some(0))
             km_start == IF synthetic THEN current_km ELSE road.km_start[1]
             km_end == IF synthetic THEN current_km + 500 ELSE road.km_end[1]
             section == [ id |-> road.id,
                          highway |-> road.highway,
                          direction |-> road.direction,
                          km_start |-> km_start,
                          km_end |-> km_end,
                          pci |-> OrDefault(road.pci, 700) ]
         IN  <<section>> \o AssignKm(Tail(roads),
                                IF synthetic THEN km_end + 50 ELSE current_km)

RECURSIVE Flatten(_)
\* the lists of a list of lists, one after the other
Flatten(ss) == IF ss = <<>> THEN <<>> ELSE ss[1] \o Flatten(Tail(ss))

\* the RoadSections of the road dicts get_road_conditions returned, group by
\* group; dmi, iri, pavement_type and aadt are not kept
_get_road_sections(roads) ==
    LET keys == KeysInOrder([i \in DOMAIN roads |-> GroupKey(roads[i])])
    IN  Flatten([k \in DOMAIN keys |->
            AssignKm(SelectSeq(roads, LAMBDA r : GroupKey(r) = keys[k]), 0)])



RECURSIVE SortByKmStart(_)
\* section_list.sort(key=lambda s: s.km_start): ascending and stable
SortByKmStart(s) ==
    IF s = <<>> THEN <<>>
    ELSE LET rest == SortByKmStart(SubSeq(s, 1, Len(s) - 1))
             x == s[Len(s)]
         IN  SelectSeq(rest, LAMBDA y : y.km_start <= x.km_start)
             \o <<x>>
             \o SelectSeq(rest, LAMBDA y : y.km_start > x.km_start)

\* the bundles left in the order they were built
SortBySavings_None(s) == s

RECURSIVE SortBySavings(_)
\* bundles.sort(key=lambda b: b.savings, reverse=True): descending and stable
SortBySavings(s) ==
    IF s = <<>> THEN <<>>
    ELSE LET rest == SortBySavings(SubSeq(s, 1, Len(s) - 1))
             x == s[Len(s)]
         IN  SelectSeq(rest, LAMBDA y : y.savings >= x.savings)
             \o <<x>>
             \o SelectSeq(rest, LAMBDA y : y.savings < x.savings)

RECURSIVE MinOf(_, _)
\* min(s[i][fld])
MinOf(s, fld) ==
    IF Len(s) = 1 THEN s[1][fld] ELSE Min(s[1][fld], MinOf(Tail(s), fld))

RECURSIVE MaxOf(_, _)
\* max(s[i][fld])
MaxOf(s, fld) ==
    IF Len(s) = 1 THEN s[1][fld] ELSE Max(s[1][fld], MaxOf(Tail(s), fld))

RECURSIVE TotalLength(_)
\* sum(s.length_km for s in sections)
TotalLength(sections) ==
    IF sections = <<>> THEN 0
    ELSE length_km(sections[1]) + TotalLength(Tail(sections))

\* a test that lets every section join
WithinGap_Always(gap, max_gap_km) == TRUE

\* the test that lets a section join the running bundle
WithinGap(gap, max_gap_km) == gap <= max_gap_km * 100

\* a test that lets every bundle be emitted
LongEnough_Always(total_length_km, min_bundle_length_km) == TRUE

\* the test that lets a bundle be emitted; total_length_km is in tenths
LongEnough(total_length_km, min_bundle_length_km) ==
    total_length_km >= min_bundle_length_km * 10

\* mobilizations left out of the cost
Mobilizations_Free(n) == 0

\* what n mobilizations cost
Mobilizations(n) == n * MOBILIZATION_COST

\* the BundleOpportunity of a run of sections; bundle_id is the number in
\* "B001", savings_percent is in tenths of a percent
_create_bundle(sections, highway, direction, bundle_id) ==
    LET start_km == MinOf(sections, "km_start")
        end_km == MaxOf(sections, "km_end")
        total_length == TotalLength(sections)
        individual_cost == Mobilizations(Len(sections))
                               + total_length * COST_PER_KM_INDIVIDUAL
        bundled_cost == Mobilizations(1) + total_length * COST_PER_KM_BUNDLED
        savings == individual_cost - bundled_cost
    IN  [ highway |-> highway,
          direction |-> direction,
          sections |-> sections,
          bundle_id |-> bundle_id,
          start_km |-> start_km,
          end_km |-> end_km,
          total_length_km |-> RoundHalfEven(total_length, 10),
          average_pci |-> RoundHalfEven(SumSeq(sections, "pci"), Len(sections)),
          min_pci |-> MinOf(sections, "pci"),
          max_pci |-> MaxOf(sections, "pci"),
          sections_needing_repair |-> Len(sections),
          individual_cost |-> individual_cost,
          bundled_cost |-> bundled_cost,
          savings |-> savings,
          \* every cost is a multiple of $100
          savings_percent |->
              IF individual_cost > 0
              THEN RoundHalfEven((savings \div 100) * 1000, individual_cost \div 100)
              ELSE 0,
          traffic_disruptions_avoided |-> Len(sections) - 1,
          mobilization_savings |-> (Len(sections) - 1) * MOBILIZATION_COST,
          continuous_smooth_km |-> RoundHalfEven(end_km - start_km, 10),
          qualifies_for_federal_funding |-> bundled_cost >= FEDERAL_FUNDING_THRESHOLD ]



\* the sections of a highway that are candidates for a bundle, in km_start
\* order: those needing repair or, when they are fewer than 2, those below
\* PCI 80
RepairSections(section_list) ==
    LET sorted == SortByKmStart(section_list)
        repair == SelectSeq(sorted, needs_repair)
    IN  IF Len(repair) < 2 THEN SelectSeq(sorted, LAMBDA s : s.pci < 800)
        ELSE repair

RECURSIVE Runs(_, _)
\* the values current_bundle has when it is closed, in order: the loop over
\* repair_sections extends the running bundle while the gap allows it
Runs(repair_sections, max_gap_km) ==
    IF repair_sections = <<>> THEN <<>>
    ELSE LET before == Runs(SubSeq(repair_sections, 1, Len(repair_sections) - 1),
                            max_gap_km)
             section == repair_sections[Len(repair_sections)]
         IN  IF before = <<>> THEN << <<section>> >>
             ELSE LET current_bundle == before[Len(before)]
                      last == current_bundle[Len(current_bundle)]
                      gap == section.km_start - last.km_end
                  IN  IF WithinGap(gap, max_gap_km)
                      THEN [before EXCEPT ![Len(before)] = Append(current_bundle, section)]
                      ELSE Append(before, <<section>>)

RECURSIVE EmitRuns(_, _, _, _)
\* bundles with the bundle of every closed run of 2 or more sections that is
\* long enough appended; bundle_counter is 1 + the number emitted so far
EmitRuns(runs, hwy, min_bundle_length_km, bundles) ==
    IF runs = <<>> THEN bundles
    ELSE LET current_bundle == runs[1]
             bundle == _create_bundle(current_bundle, hwy,
                           current_bundle[1].direction, Len(bundles) + 1)
             emitted == /\ Len(current_bundle) >= 2
                        /\ LongEnough(bundle.total_length_km, min_bundle_length_km)
         IN  EmitRuns(Tail(runs), hwy, min_bundle_length_km,
                      IF emitted THEN Append(bundles, bundle) ELSE bundles)

RECURSIVE BundleHighways(_, _, _, _, _)
\* the loop over the highways, in the insertion order of `grouped`
BundleHighways(hwys, sections, min_bundle_length_km, max_gap_km, bundles) ==
    IF hwys = <<>> THEN bundles
    ELSE LET hwy == hwys[1]
             section_list == SelectSeq(sections, LAMBDA s : s.highway = hwy)
             repair_sections == RepairSections(section_list)
             next == IF Len(repair_sections) < 2 THEN bundles
                     ELSE EmitRuns(Runs(repair_sections, max_gap_km), hwy,
                                   min_bundle_length_km, bundles)
         IN  BundleHighways(Tail(hwys), sections, min_bundle_length_km,
                            max_gap_km, next)

\* the list of BundleOpportunity for the road dicts get_road_conditions
\* returned, sorted by savings
find_bundle_opportunities(roads, min_bundle_length_km, max_gap_km) ==
    LET sections == _get_road_sections(roads)
        hwys == KeysInOrder([i \in DOMAIN sections |-> sections[i].highway])
    IN  SortBySavings(BundleHighways(hwys, sections, min_bundle_length_km,
                                     max_gap_km, <<>>))



\* the first key of keys with the most sections: the head of
\* sorted(keys, key=lambda d: len(by_direction[d]), reverse=True)
Largest(keys, by_direction) ==
    LET i == CHOOSE i \in DOMAIN keys :
                 /\ \A j \in DOMAIN keys :
                       Len(by_direction[keys[j]]) <= Len(by_direction[keys[i]])
                 /\ \A j \in 1..(i - 1) :
                       Len(by_direction[keys[j]]) < Len(by_direction[keys[i]])
    IN  keys[i]

\* the first recommendation without its test of the worse direction's PCI
PrioritizeRepair_AnyPci(diff_num, worse_sum, worse_n, n_1, n_2) ==
    diff_num >= 60 * n_1 * n_2

\* the condition of the first recommendation, pci_diff >= 6 and
\* worse_pci < 65; the PCIs are in tenths, pci_diff is diff_num / (n_1 * n_2)
\* and worse_pci is worse_sum / worse_n
PrioritizeRepair(diff_num, worse_sum, worse_n, n_1, n_2) ==
    /\ diff_num >= 60 * n_1 * n_2
    /\ worse_sum < 650 * worse_n

\* the list analyze_directional_conditions returns for the road dicts
\* get_road_conditions returned: no or one DirectionalAnalysis.  The averages
\* of iri, dmi and truck percent and the degradation_reason they decide are
\* left out; the recommendation is kept as its kind.
analyze_directional_conditions(roads) ==
    LET sections == _get_road_sections(roads)
        directions == KeysInOrder([i \in DOMAIN sections |-> sections[i].direction])
        by_direction == [d \in {directions[i] : i \in DOMAIN directions} |->
                            SelectSeq(sections, LAMBDA s : s.direction = d)]
    IN  IF Len(directions) < 2 THEN <<>>
        ELSE
        LET dir_1 == Largest(directions, by_direction)
            dir_2 == Largest(SelectSeq(directions, LAMBDA d : d # dir_1), by_direction)
            sections_1 == by_direction[dir_1]
            sections_2 == by_direction[dir_2]
            n_1 == Len(sections_1)
            n_2 == Len(sections_2)
            sum_1 == SumSeq(sections_1, "pci")
            sum_2 == SumSeq(sections_2, "pci")
            \* pci_1 < pci_2
            first_worse == sum_1 * n_2 < sum_2 * n_1
            \* pci_diff * n_1 * n_2
            diff_num == IF first_worse THEN sum_2 * n_1 - sum_1 * n_2
                        ELSE sum_1 * n_2 - sum_2 * n_1
            worse_dir == IF first_worse THEN dir_1 ELSE dir_2
            \* worse_pci = min(pci_1, pci_2) is worse_sum / worse_n
            worse_sum == IF sum_1 * n_2 <= sum_2 * n_1 THEN sum_1 ELSE sum_2
            worse_n == IF sum_1 * n_2 <= sum_2 * n_1 THEN n_1 ELSE n_2
            worse_sections == IF first_worse THEN sections_1 ELSE sections_2
            worse_length == TotalLength(SelectSeq(worse_sections, needs_repair))
            single_dir_cost == worse_length * COST_PER_KM_BUNDLED + MOBILIZATION_COST
            both_dir_cost == (single_dir_cost * 19) \div 10
            all_sections == sections_1 \o sections_2
        IN  << [ direction_1 |-> dir_1,
                 direction_1_sections |-> n_1,
                 direction_1_avg_pci |-> RoundHalfEven(sum_1, n_1),
                 direction_2 |-> dir_2,
                 direction_2_sections |-> n_2,
                 direction_2_avg_pci |-> RoundHalfEven(sum_2, n_2),
                 pci_difference |-> RoundHalfEven(diff_num, n_1 * n_2),
                 worse_direction |-> worse_dir,
                 recommendation |->
                     IF PrioritizeRepair(diff_num, worse_sum, worse_n, n_1, n_2)
                     THEN "Prioritize lane for immediate repair"
                     ELSE IF diff_num >= 30 * n_1 * n_2
                     THEN "Monitor and schedule first"
                     ELSE "Both directions similar",
                 single_direction_repair_cost |-> single_dir_cost,
                 both_directions_repair_cost |-> both_dir_cost,
                 potential_savings |-> both_dir_cost - single_dir_cost,
                 min_km |-> MinOf(all_sections, "km_start"),
                 max_km |-> MaxOf(all_sections, "km_end") ] >>



\* the km posts of a road dict: absent, two 12 km sections 5 km apart, and a
\* 4.96 km section 26 km further
KmPosts == { <<None, None>>, <<Some(0), Some(1200)>>, <<Some(1700), Some(2900)>>,
             <<Some(5500), Some(5996)>> }

\* road dicts of get_road_conditions as the corridor service reads them
CorridorRoads ==
    [ highway : {"401"}, direction : {"EB"}, km : KmPosts,
      pci : {None, Some(550), Some(850)} ]
    \cup
    [ highway : {"401"}, direction : {"WB"},
      km : { <<None, None>>, <<Some(1700), Some(2900)>> },
      pci : {Some(550), Some(660), Some(850)} ]
    \cup
    [ highway : {"17"}, direction : {"EB"}, km : { <<None, None>> },
      pci : {Some(550)} ]

\* road dicts for the longer lists, those that can hold two bundles: two 12 km
\* posts 5 km apart and a far one on highway 401, no posts on highway 17
LongCorridorRoads ==
    [ highway : {"401"}, direction : {"EB"},
      km : { <<Some(0), Some(1200)>>, <<Some(1700), Some(2900)>> },
      pci : {Some(550), Some(750)} ]
    \cup
    [ highway : {"401"}, direction : {"EB"}, km : { <<Some(5500), Some(5996)>> },
      pci : {Some(550)} ]
    \cup
    [ highway : {"17"}, direction : {"EB"}, km : { <<None, None>> },
      pci : {Some(550), Some(750)} ]

\* the i-th road dict of the list; id stands for the identity of the dict
RoadDict(i, r) ==
    [ id |-> i, highway |-> r.highway, direction |-> r.direction,
      km_start |-> r.km[1], km_end |-> r.km[2], pci |-> r.pci ]

\* the values min_bundle_length_km and max_gap_km are called with, in km; the
\* defaults are 10 and 25
BundleLengths == {10, 17}
MaxGaps == {4, 25, 30}

FindBundles(min_bundle_length_km, max_gap_km) ==
    /\ pc = "idle"
    /\ corridor_call' = [ op |-> "find_bundle_opportunities",
                          min_bundle_length_km |-> min_bundle_length_km,
                          max_gap_km |-> max_gap_km ]
    /\ corridor_result' = find_bundle_opportunities(road_list,
                              min_bundle_length_km, max_gap_km)
    /\ pc' = "returned"
    /\ UNCHANGED <<road_list, outsideCorridor>>

AnalyzeDirections ==
    /\ pc = "idle"
    /\ corridor_call' = [ op |-> "analyze_directional_conditions" ]
    /\ corridor_result' = analyze_directional_conditions(road_list)
    /\ pc' = "returned"
    /\ UNCHANGED <<road_list, outsideCorridor>>

InitCorridor ==
    /\ pc = "idle"
    /\ \/ \E n \in 0..MaxRoads : \E rs \in [1..n -> CorridorRoads] :
             road_list = [i \in 1..n |-> RoadDict(i, rs[i])]
       \/ \E rs \in [1..(MaxRoads + 1) -> LongCorridorRoads] :
             road_list = [i \in 1..(MaxRoads + 1) |-> RoadDict(i, rs[i])]
    /\ corridor_call = NoValue
    /\ corridor_result = NoValue
    /\ cached_bridges = <<>>
    /\ cached_roads = <<>>
    /\ call = NoValue
    /\ result = NoValue
    /\ trace = NoValue
    /\ risk_input = NoValue
    /\ risk_score = NoValue
    /\ segment = NoValue
    /\ predicted_pci = NoValue
    /\ intervention = NoValue
    /\ winter_roads = <<>>
    /\ winter_province = NoValue
    /\ vulnerabilities = NoValue
    /\ road_table = <<>>
    /\ bridge_table = <<>>
    /\ now = 0
    /\ repo_call = NoValue
    /\ calls = 0
    /\ assets = <<>>
    /\ request = NoValue
    /\ response = NoValue
    /\ threads = <<>>
    /\ _road_service = 0
    /\ db_isolation = NoValue
    /\ write_lock = 0
    /\ table_at_start = <<>>

NextCorridor ==
    \/ \E min_bundle_length_km \in BundleLengths, max_gap_km \in MaxGaps :
          FindBundles(min_bundle_length_km, max_gap_km)
    \/ AnalyzeDirections

SpecCorridor == InitCorridor /\ [][NextCorridor]_vars


(***************************************************************************)
(* Winter resilience (backend/winter_resilience_service.py)                *)
(*                                                                         *)
(* A PCI and an expected PCI loss are in tenths of a point, a factor in    *)
(* tenths, a dmi in points, an iri in tenths, km posts in km, money in $.  *)
(* The risk score before its rounding is kept as a number of 1/250000 of   *)
(* a point: (100 - pci)/100 x cycles/50 x three factors x 100 x 2, with    *)
(* the PCI and the factors in tenths, is their product / 250000.           *)
(***************************************************************************)
MaxWinterRoads == 2

\* FREEZE_THAW_CYCLES.get(province, 45), for the provinces of the model
FREEZE_THAW_CYCLES(province) ==
    CASE province = "Ontario" -> 46
      [] province = "Quebec" -> 50
      [] province = "British Columbia" -> 28
      [] province = "Newfoundland and Labrador" -> 55
      [] OTHER -> 45

\* PAVEMENT_VULNERABILITY.get(pavement_type, 1.0), in tenths
PAVEMENT_VULNERABILITY(pavement_type) ==
    CASE pavement_type = "AC" -> 13
      [] pavement_type = "PCC" -> 7
      [] pavement_type = "COMP" -> 10
      [] pavement_type = "ST" -> 15
      [] pavement_type = "GRAVEL" -> 5
      [] OTHER -> 10

\* the vulnerability curve over the PCI, in tenths; it peaks for 60 <= pci < 70
get_pci_vulnerability_factor(pci) ==
    IF pci >= 800 THEN 6
    ELSE IF pci >= 700 THEN 9
    ELSE IF pci >= 600 THEN 14
    ELSE IF pci >= 500 THEN 12
    ELSE IF pci >= 400 THEN 10
    ELSE 8

\* in tenths; aadt is None or Some(n)
get_traffic_load_factor(aadt) ==
    IF aadt = None THEN 10
    ELSE IF aadt[1] >= 50000 THEN 14
    ELSE IF aadt[1] >= 30000 THEN 12
    ELSE IF aadt[1] >= 15000 THEN 10
    ELSE IF aadt[1] >= 5000 THEN 9
    ELSE 8

\* in tenths; distress_score = dmi / 50 + iri / 5 is (dmi + iri in tenths) / 50
get_drainage_factor(dmi, iri) ==
    LET d == IF dmi # None THEN dmi[1] ELSE 10
        i == IF iri # None THEN iri[1] ELSE 20
        distress_score == d + i
    IN  IF distress_score > 75 THEN 15
        ELSE IF distress_score > 50 THEN 12
        ELSE IF distress_score > 25 THEN 10
        ELSE 8

\* the risk the code takes from the present condition, (100 - current_pci) of
\* condition_vulnerability, in tenths of a point
ConditionVulnerability(current_pci) == 1000 - current_pci

\* (risk_score, expected_pci_loss): risk_score in 1/250000 of a point,
\* expected_pci_loss = round(base_loss * pavement_vulnerability, 1) in tenths
calculate_winter_damage_risk(current_pci, freeze_thaw_cycles, pavement_vulnerability, traffic_load_factor, drainage_factor) ==
    LET raw_risk_2 == ConditionVulnerability(current_pci) * freeze_thaw_cycles
                          * pavement_vulnerability * traffic_load_factor
                          * drainage_factor
        \* risk_score = min(100, max(0, raw_risk * 2))
        risk == Min(25000000, Max(0, raw_risk_2))
        \* base_loss = 3 + (risk_score / 100) * 12, as a number of 1/6250000
        base_loss == 18750000 + 3 * risk
    IN  [ risk_score |-> risk,
          expected_pci_loss |->
              RoundHalfEven(base_loss * pavement_vulnerability, 6250000) ]

\* risk is the risk_score, in 1/250000 of a point
get_risk_level(risk, expected_pci_loss) ==
    IF expected_pci_loss > 100 \/ risk > 75 * 250000 THEN "severe"
    ELSE IF expected_pci_loss > 70 \/ risk > 55 * 250000 THEN "high"
    ELSE IF expected_pci_loss > 40 \/ risk > 35 * 250000 THEN "moderate"
    ELSE "low"

\* get_pci_condition of both services
get_pci_condition(pci) ==
    IF pci >= 800 THEN "Good"
    ELSE IF pci >= 600 THEN "Fair"
    ELSE IF pci >= 400 THEN "Poor"
    ELSE "Critical"



\* a recommendation that never looks at the crossing
Escalated_Never(risk_level, crosses_threshold) == FALSE

\* whether get_recommendation returns the "URGENT: ..." texts
Escalated(risk_level, crosses_threshold) ==
    risk_level = "severe" /\ crosses_threshold

\* (recommendation, action); the condition the urgent text names is left out
get_recommendation(risk_level, current_pci, post_winter_pci, crosses_threshold) ==
    IF Escalated(risk_level, crosses_threshold)
    THEN << "URGENT: Pre-winter crack sealing prevents crossing",
            "Immediate crack sealing and waterproofing" >>
    ELSE IF risk_level = "severe"
    THEN << "High priority pre-winter treatment recommended",
            "Crack sealing and joint repair" >>
    ELSE IF risk_level = "high"
    THEN << "Pre-winter maintenance strongly recommended",
            "Crack sealing in high-traffic areas" >>
    ELSE IF risk_level = "moderate"
    THEN << "Monitor condition, schedule spring assessment",
            "Targeted crack sealing if budget allows" >>
    ELSE << "Low winter risk - standard monitoring",
            "No immediate action required" >>

\* the WinterVulnerability of one road dict
WinterVulnerability(road, province) ==
    LET freeze_thaw == FREEZE_THAW_CYCLES(province)
        current_pci == OrDefault(road.pci, 700)
        pavement_type == OrDefaultText(road.pavement_type, "AC")
        pci_vuln == get_pci_vulnerability_factor(current_pci)
        pavement_vuln == PAVEMENT_VULNERABILITY(pavement_type)
        traffic_factor == get_traffic_load_factor(road.aadt)
        drainage_factor == get_drainage_factor(road.dmi, road.iri)
        r == calculate_winter_damage_risk(current_pci, freeze_thaw,
                 pavement_vuln, traffic_factor, drainage_factor)
        expected_loss == r.expected_pci_loss
        risk_level == get_risk_level(r.risk_score, expected_loss)
        post_winter_pci == Max(0, current_pci - expected_loss)
        current_condition == get_pci_condition(current_pci)
        post_winter_condition == get_pci_condition(post_winter_pci)
        crosses_threshold == current_condition # post_winter_condition
        rec == get_recommendation(risk_level, current_pci, post_winter_pci,
                                  crosses_threshold)
        km == OrDefault(road.km_end, 10) - OrDefault(road.km_start, 0)
        km_length == Max(1, IF km >= 0 THEN km ELSE 0 - km)
        pre_winter_cost ==
            (CASE risk_level = "severe" -> 45000
               [] risk_level = "high" -> 35000
               [] risk_level = "moderate" -> 20000
               [] OTHER -> 10000) * km_length
        spring_repair_cost ==
            (CASE risk_level = "severe" -> 320000
               [] risk_level = "high" -> 180000
               [] risk_level = "moderate" -> 80000
               [] OTHER -> 30000) * km_length
    IN  [ id |-> road.id,
          current_pci |-> current_pci,
          current_condition |-> current_condition,
          pavement_type |-> pavement_type,
          freeze_thaw_cycles |-> freeze_thaw,
          pci_vulnerability_factor |-> pci_vuln,
          pavement_vulnerability_factor |-> pavement_vuln,
          traffic_load_factor |-> traffic_factor,
          drainage_factor |-> drainage_factor,
          \* round(risk_score, 1), in tenths
          winter_damage_risk_score |-> RoundHalfEven(r.risk_score, 25000),
          risk_level |-> risk_level,
          expected_pci_loss |-> expected_loss,
          post_winter_pci |-> post_winter_pci,
          post_winter_condition |-> post_winter_condition,
          crosses_threshold |-> crosses_threshold,
          threshold_crossed |->
              IF crosses_threshold
              THEN <<current_condition, post_winter_condition>> ELSE <<>>,
          recommendation |-> rec[1],
          recommended_action |-> rec[2],
          pre_winter_cost |-> pre_winter_cost,
          spring_repair_cost |-> spring_repair_cost,
          cost_savings |-> spring_repair_cost - pre_winter_cost,
          \* round(roi, 1), in tenths
          roi |-> RoundHalfEven((spring_repair_cost - pre_winter_cost) * 10,
                                pre_winter_cost) ]



RECURSIVE SortByWinterRisk(_)
\* vulnerabilities.sort(key=lambda v: v.winter_damage_risk_score,
\* reverse=True): descending and stable
SortByWinterRisk(s) ==
    IF s = <<>> THEN <<>>
    ELSE LET rest == SortByWinterRisk(SubSeq(s, 1, Len(s) - 1))
             x == s[Len(s)]
         IN  SelectSeq(rest, LAMBDA y :
                 y.winter_damage_risk_score >= x.winter_damage_risk_score)
             \o <<x>>
             \o SelectSeq(rest, LAMBDA y :
                 y.winter_damage_risk_score < x.winter_damage_risk_score)

\* the list of WinterVulnerability for the road dicts get_road_conditions
\* returned, the highest risk first; the fields copied from the dict and the
\* climate zone's name are left out
analyze_winter_vulnerability(roads, province) ==
    SortByWinterRisk([i \in DOMAIN roads |-> WinterVulnerability(roads[i], province)])

\* road dicts of get_road_conditions as the winter service reads them
WinterRoads ==
    [ pci : {None} \cup {Some(n) : n \in {300, 390, 610, 650, 850}},
      pavement_type : {None, Some("PCC")},
      aadt : {None, Some(60000)},
      dmi : {None},
      iri : {None, Some(45)},
      km_start : {None},
      km_end : {Some(17)} ]

\* the i-th road dict of the list; id stands for the identity of the dict
WinterRoadDict(i, r) ==
    [ id |-> i, pci |-> r.pci, pavement_type |-> r.pavement_type,
      aadt |-> r.aadt, dmi |-> r.dmi, iri |-> r.iri,
      km_start |-> r.km_start, km_end |-> r.km_end ]

WinterProvinces == {"Ontario", "British Columbia", "Newfoundland and Labrador"}

AnalyzeWinter ==
    /\ pc = "idle"
    /\ vulnerabilities' = analyze_winter_vulnerability(winter_roads, winter_province)
    /\ pc' = "returned"
    /\ UNCHANGED <<winter_roads, winter_province, outsideWinter>>

InitWinter ==
    /\ pc = "idle"
    /\ winter_province \in WinterProvinces
    /\ \E n \in 0..MaxWinterRoads : \E rs \in [1..n -> WinterRoads] :
          winter_roads = [i \in 1..n |-> WinterRoadDict(i, rs[i])]
    /\ vulnerabilities = NoValue
    /\ road_table = <<>>
    /\ bridge_table = <<>>
    /\ now = 0
    /\ repo_call = NoValue
    /\ calls = 0
    /\ cached_bridges = <<>>
    /\ cached_roads = <<>>
    /\ call = NoValue
    /\ result = NoValue
    /\ trace = NoValue
    /\ risk_input = NoValue
    /\ risk_score = NoValue
    /\ segment = NoValue
    /\ predicted_pci = NoValue
    /\ intervention = NoValue
    /\ road_list = <<>>
    /\ corridor_call = NoValue
    /\ corridor_result = NoValue
    /\ assets = <<>>
    /\ request = NoValue
    /\ response = NoValue
    /\ threads = <<>>
    /\ _road_service = 0
    /\ db_isolation = NoValue
    /\ write_lock = 0
    /\ table_at_start = <<>>

NextWinter == AnalyzeWinter

SpecWinter == InitWinter /\ [][NextWinter]_vars


(***************************************************************************)
(* The segment repository: the tables CachedRoadCondition and              *)
(* CachedBridgeLocation and the data access of the analyses.  A text that  *)
(* is searched (a highway name, a search pattern) is the sequence of its   *)
(* characters.  Times are in units of 24 hours.  A road dict keeps the     *)
(* keys province, highway and pci (in tenths), a bridge dict the keys id   *)
(* and condition.  Every analysis is called with a province.  What an      *)
(* analysis computes from the roads it is handed is the business of        *)
(* SpecForecast, SpecCorridor, SpecWinter and SpecOptimize: it reads the   *)
(* list and touches no table.  A database that fails for a reason of its   *)
(* own is not modelled.                                                    *)
(***************************************************************************)
\* the generator makes 5 to 15 sections a highway: the model makes this many
MaxSections == 1
\* the generator makes min(limit, bridges of the province) bridges: the
\* model makes this many
MaxBridges == 1
\* analyses invoked in one behaviour
MaxCalls == 2
\* how far the clock runs
MaxTime == 2

\* self._cache_ttl = timedelta(hours=24)
CACHE_TTL == 1

\* the lower case of each character of the texts of the model
LowerOf ==
    LET UpperCase == <<"A", "B", "C", "D", "E", "F", "G", "H", "I", "J", "K", "L",
                     "M", "N", "O", "P", "Q", "R", "S", "T", "U", "V", "W", "X", "Y", "Z">>
        LowerCase == <<"a", "b", "c", "d", "e", "f", "g", "h", "i", "j", "k", "l",
                     "m", "n", "o", "p", "q", "r", "s", "t", "u", "v", "w", "x", "y", "z">>
        Characters ==
            {UpperCase[k] : k \in 1..26} \cup {LowerCase[k] : k \in 1..26}
                \cup {"0", "1", "2", "3", "4", "5", "6", "7", "8", "9", " ", "-"}
    IN  [c \in Characters |->
            IF \E k \in 1..26 : UpperCase[k] = c
            THEN LowerCase[CHOOSE k \in 1..26 : UpperCase[k] = c]
            ELSE c]

\* str.lower() and the case folding of ILIKE
lower(text) == [i \in DOMAIN text |-> LowerOf[text[i]]]

\* part in text; column.ilike(f"%{part}%") is Contains(lower(column),
\* lower(part)) for a part without % and _
Contains(text, part) ==
    \E i \in 0..(Len(text) - Len(part)) : SubSeq(text, i + 1, i + Len(part)) = part

\* the truth value Python gives an optional text: None and "" are false
Given(x) == x # None /\ x[1] # <<>>

\* the dict _get_cached_roads_from_db makes of a row
CachedRoadDict(r) == [highway |-> r.highway, pci |-> r.pci, province |-> r.province]

\* a cache that never counts as fresh
IsFresh_Never(query, clock) == FALSE

\* fresh_check: some record of the query was cached within the TTL
IsFresh(query, clock) ==
    \E i \in DOMAIN query : query[i].cached_at >= clock - CACHE_TTL

\* the roads of the fresh cache, or None
_get_cached_roads_from_db(table, clock, province, highway, limit) ==
    LET Matches(r) == /\ r.province = province
                      /\ Given(highway) =>
                             r.highway # None
                             /\ Contains(lower(r.highway[1]), lower(highway[1]))
        query == SelectSeq(table, Matches)
        records == SubSeq(query, 1, Min(limit, Len(query)))
    IN  IF ~IsFresh(query, clock) THEN None
        ELSE IF records = <<>> THEN None
        ELSE Some([i \in DOMAIN records |-> CachedRoadDict(records[i])])

\* the table after _cache_roads_to_db(roads, source): the rows of the
\* province and highway of the first road (of its province, when its highway
\* is "") are deleted and the roads are inserted.  The column highway is not
\* nullable: a road whose highway is None makes the commit raise, and the
\* rollback undoes the delete and the inserts
_cache_roads_to_db(table, clock, roads, source) ==
    IF roads = <<>> THEN table
    ELSE IF \E i \in DOMAIN roads : roads[i].highway = None THEN table
    ELSE LET province == roads[1].province
             highway == roads[1].highway
             Stays(r) == IF Given(highway)
                         THEN ~(r.province = province /\ r.highway = highway)
                         ELSE r.province # province
             inserted == [i \in DOMAIN roads |->
                             [province |-> roads[i].province,
                              highway |-> roads[i].highway,
                              pci |-> roads[i].pci,
                              cached_at |-> clock,
                              data_source |-> source]]
         IN  SelectSeq(table, Stays) \o inserted

\* HIGHWAYS of _generate_fallback_roads, for Ontario and for a province it
\* does not know
HIGHWAYS(province) ==
    IF province = "Ontario"
    THEN << <<"H", "w", "y", " ", "4", "0", "1">>,
          <<"H", "w", "y", " ", "4", "0", "0">>,
          <<"H", "w", "y", " ", "4", "1", "7">>,
          <<"Q", "E", "W">>,
          <<"H", "w", "y", " ", "1", "1">>,
          <<"T", "r", "a", "n", "s", "-", "C", "a", "n", "a", "d", "a", " ", "H", "w", "y", " ", "1", "7">> >>
    ELSE <<>>

\* roads[:limit] of _generate_fallback_roads, num_sections and pci being what
\* random drew; every section of one list gets the same pci
_generate_fallback_roads(province, highway, limit, num_sections, pci) ==
    LET Wanted(h) == Contains(lower(h), lower(highway[1]))
        hwys == IF Given(highway) THEN SelectSeq(HIGHWAYS(province), Wanted)
                ELSE HIGHWAYS(province)
        roads == Flatten([k \in DOMAIN hwys |->
                     [i \in 1..num_sections |->
                         [highway |-> Some(hwys[k]), pci |-> pci,
                          province |-> province]]])
    IN  SubSeq(roads, 1, Min(limit, Len(roads)))

\* get_road_conditions: the roads, their source, the providers it turned to
\* in order, and the table afterwards.
\* mcp is None when the MCP server is not available or the query raised, and
\* the "roads" of its answer otherwise; generated is what
\* _generate_fallback_roads would return
get_road_conditions(table, clock, province, highway, limit, mcp, generated) ==
    LET from_cache == _get_cached_roads_from_db(table, clock, province, highway, limit)
    IN  IF from_cache # None
        THEN [roads |-> from_cache[1], source |-> "database_cache",
              consulted |-> <<"database_cache">>, table |-> table]
        ELSE IF mcp # None /\ mcp[1] # <<>>
        THEN LET Filled(p) == IF p # None /\ p[1] # "" THEN p[1] ELSE province
                 normalized_roads ==
                     [i \in DOMAIN mcp[1] |->
                         [highway |-> mcp[1][i].highway, pci |-> mcp[1][i].pci,
                          province |-> Filled(mcp[1][i].province)]]
             IN  [roads |-> normalized_roads, source |-> "MCP",
                  consulted |-> <<"database_cache", "MCP">>,
                  table |-> _cache_roads_to_db(table, clock, normalized_roads, "MCP")]
        ELSE [roads |-> generated, source |-> "generated",
              consulted |-> <<"database_cache", "MCP", "generated">>,
              table |-> _cache_roads_to_db(table, clock, generated, "generated")]

\* save_bridge_locations(region, bridges): the rows of the region are
\* deleted and the bridges inserted
save_bridge_locations(table, clock, region, bridges) ==
    LET Stays(b) == b.region # region
    IN  SelectSeq(table, Stays) \o
        [i \in DOMAIN bridges |->
            [region |-> region, bridge_id |-> bridges[i].id,
             condition |-> bridges[i].condition, cached_at |-> clock]]

\* government_data_service.get_bridge_locations for a region that has no row
\* in CachedBridgeLocation: get_cached_bridges returns None, then the MCP
\* answer (None or a non-empty list) is saved, else the generated list (None
\* for a region PROVINCE_BRIDGE_DATA does not have: of the regions of the
\* model it has Ontario)
get_bridge_locations(table, clock, region, mcp, fallback) ==
    IF mcp # None
    THEN [bridges |-> mcp[1], source |-> "MCP",
          table |-> save_bridge_locations(table, clock, region, mcp[1])]
    ELSE IF region = "Ontario" /\ fallback # <<>>
    THEN [bridges |-> fallback, source |-> "generated",
          table |-> save_bridge_locations(table, clock, region, fallback)]
    ELSE [bridges |-> <<>>, source |-> "none", table |-> table]

\* _get_cached_bridges of the optimizer: the rows of the region whatever
\* their age, and get_bridge_locations when there is none
_get_cached_bridges(table, clock, region, mcp, fallback) ==
    LET OfRegion(b) == b.region = region
        cached == SelectSeq(table, OfRegion)
    IN  IF cached # <<>>
        THEN [bridges |-> [i \in DOMAIN cached |->
                              [id |-> cached[i].bridge_id,
                               condition |-> cached[i].condition]],
              source |-> "database_cache", table |-> table]
        ELSE get_bridge_locations(table, clock, region, mcp, fallback)

\* the provinces and highways the analyses are called with
Provinces == {"Ontario", "Atlantis"}
HighwayArgs == {None, Some(<<"h", "w", "y", " ", "4", "0">>)}

\* what the MCP server answers to query_road_condition: nothing (not
\* available, an error, no roads) or a list of roads
McpRoadAnswers ==
    { None, Some(<<>>),
      Some(<<[highway |-> Some(<<"H", "w", "y", " ", "4", "0", "1">>), pci |-> 640, province |-> None]>>),
      Some(<<[highway |-> Some(<<>>), pci |-> 710, province |-> Some("Ontario")]>>),
      Some(<<[highway |-> None, pci |-> 480, province |-> None]>>) }
\* the bridges of a generated list, and what the MCP server answers to
\* query_bridges
GeneratedBridges ==
    {[i \in 1..MaxBridges |-> [id |-> i, condition |-> c]] : c \in {"Good", "Critical"}}
McpBridgeAnswers ==
    {None, Some(<<[id |-> 7, condition |-> "Poor"]>>)}

\* what the providers can answer in one call: <<mcp, num_sections, pci>>, the
\* generator drawing a PCI of 85; a provider that is not asked has one answer
ProviderAnswers(table, clock, province, highway, limit) ==
    IF _get_cached_roads_from_db(table, clock, province, highway, limit) # None
    THEN {<<None, 1, 0>>}
    ELSE {<<mcp, 1, 0>> : mcp \in {m \in McpRoadAnswers : m # None /\ m[1] # <<>>}}
         \cup {<<mcp, n, pci>> : mcp \in {None, Some(<<>>)}, n \in 1..MaxSections,
                                 pci \in {850}}

\* what an analysis does to the tables through get_road_conditions
Fetch(op, province, highway, limit) ==
    /\ calls < MaxCalls
    /\ \E answers \in ProviderAnswers(road_table, now, province, highway, limit) :
          LET generated == _generate_fallback_roads(province, highway, limit,
                                                    answers[2], answers[3])
              got == get_road_conditions(road_table, now, province, highway,
                                         limit, answers[1], generated)
          IN  /\ road_table' = got.table
              /\ repo_call' = [op |-> op, province |-> province,
                               highway |-> highway, limit |-> limit, at |-> now,
                               source |-> got.source, roads |-> got.roads,
                               consulted |-> got.consulted, mcp |-> answers[1],
                               bridges |-> <<>>,
                               roads_before |-> road_table,
                               bridges_before |-> bridge_table]
    /\ calls' = calls + 1
    /\ pc' = "returned"
    /\ UNCHANGED <<bridge_table, now, outsideRepository>>

\* forecast_degradation(highway, province): get_road_conditions with limit=200
ForecastDegradation(highway, province) ==
    Fetch("forecast_degradation", province, highway, 200)

\* find_bundle_opportunities(province, highway): _get_road_sections with
\* its default limit
FindBundleOpportunities(province, highway) ==
    Fetch("find_bundle_opportunities", province, highway, 200)

\* analyze_directional_conditions(province, highway)
AnalyzeDirectionalConditions(province, highway) ==
    Fetch("analyze_directional_conditions", province, highway, 200)

\* analyze_winter_vulnerability(province, highway, limit)
AnalyzeWinterVulnerability(province, highway, limit) ==
    Fetch("analyze_winter_vulnerability", province, highway, limit)

\* optimize_budget(region, include_roads): get_bridges_for_optimization, and
\* get_roads_for_optimization when include_roads, which reads the
\* CachedRoadCondition rows of the region whatever their age
OptimizeBudget(region, include_roads) ==
    /\ calls < MaxCalls
    /\ \E mcp \in McpBridgeAnswers, fallback \in GeneratedBridges :
          LET got == _get_cached_bridges(bridge_table, now, region, mcp, fallback)
              OfRegion(r) == r.province = region
              roads == IF include_roads THEN SelectSeq(road_table, OfRegion)
                       ELSE <<>>
          IN  /\ bridge_table' = got.table
              /\ repo_call' = [op |-> "optimize_budget", province |-> region,
                               highway |-> None, limit |-> 500, at |-> now,
                               source |-> got.source,
                               consulted |-> <<>>, mcp |-> mcp,
                               roads |-> [i \in DOMAIN roads |-> CachedRoadDict(roads[i])],
                               bridges |-> got.bridges,
                               roads_before |-> road_table,
                               bridges_before |-> bridge_table]
    /\ calls' = calls + 1
    /\ pc' = "returned"
    /\ UNCHANGED <<road_table, now, outsideRepository>>

\* datetime.now() moves on by 24 hours
TimePasses ==
    /\ now < MaxTime
    /\ now' = now + 1
    /\ UNCHANGED <<pc, road_table, bridge_table, repo_call, calls, outsideRepository>>

\* the tables before the first call are empty or were filled by an earlier
\* refresh
InitRepository ==
    /\ pc = "idle"
    /\ road_table \in
          { <<>>,
            <<[province |-> "Ontario", highway |-> Some(<<"H", "w", "y", " ", "4", "0", "1">>),
               pci |-> 550, cached_at |-> 0, data_source |-> "generated"]>> }
    /\ bridge_table \in
          { <<>>,
            <<[region |-> "Ontario", bridge_id |-> 3, condition |-> "Fair",
               cached_at |-> 0]>> }
    /\ now = 0
    /\ repo_call = NoValue
    /\ calls = 0
    /\ cached_bridges = <<>>
    /\ cached_roads = <<>>
    /\ call = NoValue
    /\ result = NoValue
    /\ trace = NoValue
    /\ risk_input = NoValue
    /\ risk_score = NoValue
    /\ segment = NoValue
    /\ predicted_pci = NoValue
    /\ intervention = NoValue
    /\ road_list = <<>>
    /\ corridor_call = NoValue
    /\ corridor_result = NoValue
    /\ winter_roads = <<>>
    /\ winter_province = NoValue
    /\ vulnerabilities = NoValue
    /\ assets = <<>>
    /\ request = NoValue
    /\ response = NoValue
    /\ threads = <<>>
    /\ _road_service = 0
    /\ db_isolation = NoValue
    /\ write_lock = 0
    /\ table_at_start = <<>>

\* forecast_degradation and analyze_directional_conditions need a highway;
\* analyze_winter_vulnerability has limit=100 by default
NextRepository ==
    \/ \E province \in Provinces, highway \in HighwayArgs \ {None} :
          ForecastDegradation(highway, province)
    \/ \E province \in Provinces, highway \in HighwayArgs :
          FindBundleOpportunities(province, highway)
    \/ \E province \in Provinces, highway \in HighwayArgs \ {None} :
          AnalyzeDirectionalConditions(province, highway)
    \/ \E province \in Provinces, highway \in HighwayArgs, limit \in {1, 100} :
          AnalyzeWinterVulnerability(province, highway, limit)
    \/ \E region \in Provinces, include_roads \in BOOLEAN :
          OptimizeBudget(region, include_roads)
    \/ TimePasses

SpecRepository == InitRepository /\ [][NextRepository]_vars


(***************************************************************************)
(* POST /api/optimize (backend/main.py, backend/optimizer.py)              *)
(*                                                                         *)
(* Money is in $1M.  A priority is a percentage, so a weighted score, the  *)
(* sum of terms value * priority / 100, is kept in hundredths of a point.  *)
(* The name, the coordinates and the usage of an asset, and with them      *)
(* population_protected and regional_distribution, are left out.           *)
(***************************************************************************)
MaxAssets == 2

\* priorities.get(key, 50)
PriorityOf(priorities, key) ==
    IF priorities[key] = None THEN 50 ELSE priorities[key][1]

\* the overall_score of the latest risk score of an asset, 50 without one
BaseRisk(asset) == IF asset.risk_scores = <<>> THEN 50
                   ELSE asset.risk_scores[Len(asset.risk_scores)]

\* the entry of scored_assets for an asset; risk_reduction, base_risk * 0.2,
\* is in fifths of a point
ScoredAsset(asset, priorities) ==
    [ asset |-> asset,
      score |-> BaseRisk(asset) * PriorityOf(priorities, "cost_efficiency")
                + (IF asset.climate_zone = "Coastal Atlantic" THEN 100 ELSE 0)
                      * PriorityOf(priorities, "climate_resilience")
                + (IF asset.serves_essential_services THEN 100 ELSE 0)
                      * PriorityOf(priorities, "population_impact"),
      cost |-> IF asset.type = "bridge" THEN 5
               ELSE IF asset.type = "road" THEN 2
               ELSE 1,
      risk_reduction |-> BaseRisk(asset) ]

\* the sort left out: the assets in the order of the table
SortByScore_None(s) == s

RECURSIVE SortByScore(_)
\* scored_assets.sort(key=lambda x: x["score"], reverse=True): descending and
\* stable
SortByScore(s) ==
    IF s = <<>> THEN <<>>
    ELSE LET rest == SortByScore(SubSeq(s, 1, Len(s) - 1))
             x == s[Len(s)]
         IN  SelectSeq(rest, LAMBDA y : y.score >= x.score)
             \o <<x>>
             \o SelectSeq(rest, LAMBDA y : y.score < x.score)

RECURSIVE FundInOrder(_, _)
\* the loop over the sorted list: an item is funded when its cost is within
\* the budget that remains
FundInOrder(scored_assets, budget) ==
    IF scored_assets = <<>>
    THEN [ funded_assets |-> <<>>, remaining_budget |-> budget,
           total_risk_reduction |-> 0 ]
    ELSE LET before == FundInOrder(SubSeq(scored_assets, 1, Len(scored_assets) - 1),
                                   budget)
             item == scored_assets[Len(scored_assets)]
         IN  IF item.cost <= before.remaining_budget
             THEN [ funded_assets |->
                        Append(before.funded_assets,
                               [ asset_id |-> item.asset.id, cost |-> item.cost,
                                 score |-> item.score ]),
                    remaining_budget |-> before.remaining_budget - item.cost,
                    total_risk_reduction |->
                        before.total_risk_reduction + item.risk_reduction ]
             ELSE before

\* optimizer.optimize_budget: the dict it returns
optimizer_optimize_budget(asset_list, budget, priorities) ==
    LET scored_assets ==
            SortByScore([i \in DOMAIN asset_list |->
                            ScoredAsset(asset_list[i], priorities)])
        done == FundInOrder(scored_assets, budget)
    IN  [ assets_funded_count |-> Len(done.funded_assets),
          total_assets_considered |-> Len(asset_list),
          total_cost |-> budget - done.remaining_budget,
          total_risk_reduction |-> done.total_risk_reduction,
          allocations |-> done.funded_assets ]

\* the rows of the assets table and the bodies of a request
AssetRows ==
    [ type : {"bridge", "road", "facility"},
      risk_scores : { <<>>, <<90, 20>>, <<95>> },
      climate_zone : {"Coastal Atlantic", "Prairie"},
      serves_essential_services : BOOLEAN ]
OptimizationRequests ==
    [ budget : {0, 1, 3, 6, 500},
      priorities :
          [ cost_efficiency : {None, Some(100)},
            climate_resilience : {None, Some(0)},
            population_impact : {None} ] ]

\* the endpoint: crud.get_assets(db, limit=1000), then optimize_budget, whose
\* dict is the response
optimize(req) ==
    /\ pc = "idle"
    /\ request' = req
    /\ response' = optimizer_optimize_budget(assets, req.budget, req.priorities)
    /\ pc' = "returned"
    /\ UNCHANGED <<assets, outsideApi>>

InitApi ==
    /\ pc = "idle"
    /\ \E n \in 0..MaxAssets : \E rows \in [1..n -> AssetRows] :
          assets = [i \in 1..n |->
                       [ id |-> i, type |-> rows[i].type,
                         risk_scores |-> rows[i].risk_scores,
                         climate_zone |-> rows[i].climate_zone,
                         serves_essential_services |->
                             rows[i].serves_essential_services ]]
    /\ request = NoValue
    /\ response = NoValue
    /\ cached_bridges = <<>>
    /\ cached_roads = <<>>
    /\ call = NoValue
    /\ result = NoValue
    /\ trace = NoValue
    /\ risk_input = NoValue
    /\ risk_score = NoValue
    /\ segment = NoValue
    /\ predicted_pci = NoValue
    /\ intervention = NoValue
    /\ road_list = <<>>
    /\ corridor_call = NoValue
    /\ corridor_result = NoValue
    /\ winter_roads = <<>>
    /\ winter_province = NoValue
    /\ vulnerabilities = NoValue
    /\ road_table = <<>>
    /\ bridge_table = <<>>
    /\ now = 0
    /\ repo_call = NoValue
    /\ calls = 0
    /\ threads = <<>>
    /\ _road_service = 0
    /\ db_isolation = NoValue
    /\ write_lock = 0
    /\ table_at_start = <<>>

NextApi == \E req \in OptimizationRequests : optimize(req)

SpecApi == InitApi /\ [][NextApi]_vars


(***************************************************************************)
(* Analyses invoked concurrently (backend/main.py runs its endpoints,      *)
(* plain def functions, in the thread pool of the server).                 *)
(*                                                                         *)
(* Every invocation gets the service from get_road_degradation_service and *)
(* calls get_road_conditions, whose every database access opens a session  *)
(* of its own: the read of the cache is one transaction, the delete and    *)
(* the inserts of _cache_roads_to_db another.  A step of a thread is one   *)
(* access to what the threads share: the module-level _road_service and    *)
(* the committed rows of CachedRoadCondition.  The MCP server is not       *)
(* available, so the provider is the generator.  The clock stands still    *)
(* while the invocations run.                                              *)
(***************************************************************************)
\* invocations running at the same time
MaxThreads == 2
Threads == 1..MaxThreads

\* how the database behind SessionLocal isolates two writers: one write
\* transaction at a time, or concurrent writers none of which sees what the
\* others have not committed
DbIsolations == {"serialized", "read_committed"}

\* the search patterns of the invocations: "hwy 401" finds one highway of
\* Ontario, "hwy 40" finds Hwy 401 and Hwy 400
ThreadHighways ==
    {Some(<<"h", "w", "y", " ", "4", "0", "1">>), Some(<<"h", "w", "y", " ", "4", "0">>)}

\* the PCI random draws for the sections of one generated list
ThreadDraws == {600, 700}

\* the rows of CachedRoadCondition as a set
RowsOf(table) == {table[i] : i \in DOMAIN table}

\* the rows the delete of _cache_roads_to_db(roads) removes from the rows
\* its transaction sees
DeleteStatement(table, roads) ==
    LET province == roads[1].province
        highway == roads[1].highway
        Hit(r) == IF Given(highway)
                  THEN r.province = province /\ r.highway = highway
                  ELSE r.province = province
    IN  {r \in RowsOf(table) : Hit(r)}

\* the update of one thread
ThreadAt(t, fields) == [threads EXCEPT ![t] = fields @@ threads[t]]

\* get_road_degradation_service: if _road_service is None
CheckSingleton(t) ==
    /\ threads[t].pc = "start"
    /\ threads' = ThreadAt(t, [pc |-> IF _road_service = 0 THEN "create" ELSE "get",
                               saw_none |-> (_road_service = 0)])
    /\ UNCHANGED <<_road_service, db_isolation, write_lock, table_at_start,
                   road_table, outsideConcurrent>>

\* get_road_degradation_service: _road_service = RoadDegradationService()
CreateSingleton(t) ==
    /\ threads[t].pc = "create"
    /\ _road_service' = t
    /\ threads' = ThreadAt(t, [pc |-> "get"])
    /\ UNCHANGED <<db_isolation, write_lock, table_at_start, road_table,
                   outsideConcurrent>>

\* get_road_degradation_service: return _road_service
GetSingleton(t) ==
    /\ threads[t].pc = "get"
    /\ threads' = ThreadAt(t, [pc |-> "read", service |-> _road_service])
    /\ UNCHANGED <<_road_service, db_isolation, write_lock, table_at_start,
                   road_table, outsideConcurrent>>

\* get_road_conditions, step 1: the fresh cache is returned
ReadCache(t) ==
    /\ threads[t].pc = "read"
    /\ LET from_cache == _get_cached_roads_from_db(road_table, now, threads[t].province,
                                                   threads[t].highway, 200)
       IN  threads' =
              IF from_cache # None
              THEN ThreadAt(t, [pc |-> "done",
                                returned |-> Some([roads |-> from_cache[1],
                                                   source |-> "database_cache"])])
              ELSE ThreadAt(t, [pc |-> "fetch"])
    /\ UNCHANGED <<_road_service, db_isolation, write_lock, table_at_start,
                   road_table, outsideConcurrent>>

\* get_road_conditions, step 3: the generated roads; an empty list is
\* returned without being cached
FetchProvider(t) ==
    /\ threads[t].pc = "fetch"
    /\ \E pci \in ThreadDraws :
          LET roads == _generate_fallback_roads(threads[t].province, threads[t].highway,
                                                200, MaxSections, pci)
          IN  threads' =
                 IF roads = <<>>
                 THEN ThreadAt(t, [pc |-> "done", draw |-> pci,
                                   returned |-> Some([roads |-> roads,
                                                      source |-> "generated"])])
                 ELSE ThreadAt(t, [pc |-> "delete", draw |-> pci, roads |-> roads])
    /\ UNCHANGED <<_road_service, db_isolation, write_lock, table_at_start,
                   road_table, outsideConcurrent>>

\* _cache_roads_to_db: the delete, in a transaction of its own session.  A
\* database of one writer makes the thread wait for the writer before it
\* looks at the rows
Delete(t) ==
    /\ threads[t].pc = "delete"
    /\ db_isolation = "serialized" => write_lock = 0
    /\ write_lock' = IF db_isolation = "serialized" THEN t ELSE write_lock
    /\ threads' = ThreadAt(t, [pc |-> "commit",
                               deleted |-> DeleteStatement(road_table, threads[t].roads)])
    /\ UNCHANGED <<_road_service, db_isolation, table_at_start, road_table,
                   outsideConcurrent>>

\* _cache_roads_to_db: db.add for every road and db.commit(); then
\* get_road_conditions returns the roads
Commit(t) ==
    /\ threads[t].pc = "commit"
    /\ LET Stays(r) == r \notin threads[t].deleted
       IN  road_table' = SelectSeq(road_table, Stays) \o
                         _cache_roads_to_db(<<>>, now, threads[t].roads, "generated")
    /\ write_lock' = IF write_lock = t THEN 0 ELSE write_lock
    /\ threads' = ThreadAt(t, [pc |-> "done",
                               returned |-> Some([roads |-> threads[t].roads,
                                                  source |-> "generated"])])
    /\ UNCHANGED <<_road_service, db_isolation, table_at_start, outsideConcurrent>>

\* the invocations start together, with a cache that is empty, stale or
\* fresh and no service created yet
InitConcurrent ==
    /\ pc = "idle"
    /\ now = CACHE_TTL + 1
    /\ road_table \in
          { <<>>,
            <<[province |-> "Ontario", highway |-> Some(<<"H", "w", "y", " ", "4", "0", "1">>),
               pci |-> 550, cached_at |-> 0, data_source |-> "generated"]>>,
            <<[province |-> "Ontario", highway |-> Some(<<"H", "w", "y", " ", "4", "0", "1">>),
               pci |-> 550, cached_at |-> CACHE_TTL + 1, data_source |-> "generated"]>> }
    /\ table_at_start = road_table
    /\ db_isolation \in DbIsolations
    /\ write_lock = 0
    /\ _road_service = 0
    /\ \E province \in Provinces, highways \in [Threads -> ThreadHighways] :
          threads = [t \in Threads |->
                        [pc |-> "start", province |-> province, highway |-> highways[t],
                         saw_none |-> FALSE, service |-> 0, draw |-> 0, roads |-> <<>>,
                         deleted |-> {}, returned |-> None]]
    /\ bridge_table = <<>>
    /\ repo_call = NoValue
    /\ calls = 0
    /\ cached_bridges = <<>>
    /\ cached_roads = <<>>
    /\ call = NoValue
    /\ result = NoValue
    /\ trace = NoValue
    /\ risk_input = NoValue
    /\ risk_score = NoValue
    /\ segment = NoValue
    /\ predicted_pci = NoValue
    /\ intervention = NoValue
    /\ road_list = <<>>
    /\ corridor_call = NoValue
    /\ corridor_result = NoValue
    /\ winter_roads = <<>>
    /\ winter_province = NoValue
    /\ vulnerabilities = NoValue
    /\ assets = <<>>
    /\ request = NoValue
    /\ response = NoValue

NextConcurrent ==
    \/ \E t \in Threads : CheckSingleton(t)
    \/ \E t \in Threads : CreateSingleton(t)
    \/ \E t \in Threads : GetSingleton(t)
    \/ \E t \in Threads : ReadCache(t)
    \/ \E t \in Threads : FetchProvider(t)
    \/ \E t \in Threads : Delete(t)
    \/ \E t \in Threads : Commit(t)

SpecConcurrent == InitConcurrent /\ [][NextConcurrent]_vars


(***************************************************************************)
(* Properties of optimize_budget, checked under SpecOptimize.              *)
(***************************************************************************)
\* the cached row an item was scored from
RowOf(id) == IF id[1] = "bridge" THEN cached_bridges[id[2]] ELSE cached_roads[id[2]]

\* the ids of the rows that meet the call's minimum risk score: the population
PopulationIds ==
    LET min_risk == IF call.include_medium_risk THEN 55 ELSE 70
    IN  {<<"bridge", i>> : i \in {j \in DOMAIN cached_bridges :
                                     cached_bridges[j].risk_score >= min_risk}}
        \cup
        (IF call.include_roads
         THEN {<<"road", i>> : i \in {j \in DOMAIN cached_roads :
                                         cached_roads[j].risk_score >= min_risk}}
         ELSE {})

CriticalIds == {id \in PopulationIds : RowOf(id).risk_score > 85}
HighIds == {id \in PopulationIds :
               RowOf(id).risk_score > 70 /\ RowOf(id).risk_score <= 85}
OtherIds == {id \in PopulationIds : RowOf(id).risk_score <= 70}

IdsIn(s) == {s[i].id : i \in DOMAIN s}
SelectedIds == IdsIn(result.selected_bridges) \cup IdsIn(result.selected_roads)
UnfundedCriticalIds ==
    IdsIn(result.unfunded_critical_bridges) \cup IdsIn(result.unfunded_critical_roads)
Offers == trace.offers
\* the turns at which the row with this id was offered the remaining budget
TurnsOf(id) == {i \in DOMAIN Offers : Offers[i].item.id = id}

\* C1: budget conservation.  In every result total_cost = budget -
\* budget_remaining and total_cost <= budget; the remaining budget is never
\* below 0 before or after a turn of a greedy loop; no selected bridge or road
\* costs more than the budget.
C1_BudgetConservation ==
    pc = "returned" =>
        /\ result.total_cost = call.budget - result.budget_remaining
        /\ result.total_cost <= call.budget
        /\ result.budget_remaining >= 0
        /\ \A i \in DOMAIN Offers :
              /\ Offers[i].remaining_before >= 0
              /\ Offers[i].funded =>
                    Offers[i].remaining_before - RowOf(Offers[i].item.id).cost >= 0
        /\ \A id \in SelectedIds : RowOf(id).cost <= call.budget

\* C1 witness: a run that funded one item with money and turned another down
C1_Witness ==
    /\ pc = "returned"
    /\ result.total_cost > 0
    /\ result.budget_remaining < call.budget
    /\ \E i \in DOMAIN Offers : ~Offers[i].funded

\* C2: critical first.  No non-critical segment is offered budget before every
\* critical bridge and road has had its turn, and when a critical segment is
\* left unfunded every funded non-critical segment costs no more than the
\* budget that was left when the critical tier was through.
C2_CriticalFirst ==
    pc = "returned" /\ ~trace.empty =>
        /\ \A id \in CriticalIds : TurnsOf(id) # {}
        /\ \A i, j \in DOMAIN Offers :
              (RowOf(Offers[i].item.id).risk_score > 85
               /\ RowOf(Offers[j].item.id).risk_score <= 85) => i < j
        /\ (CriticalIds \ SelectedIds # {}) =>
              \A id \in SelectedIds \ CriticalIds :
                  RowOf(id).cost <= trace.after_critical

\* C2 witness: a critical segment unfunded and a non-critical one funded
C2_Witness ==
    /\ pc = "returned"
    /\ ~trace.empty
    /\ CriticalIds \ SelectedIds # {}
    /\ \E id \in SelectedIds \ CriticalIds : RowOf(id).cost > 0

\* C3: unfunded-critical reporting.  Every critical segment has exactly one
\* turn and ends in exactly one of the selected list and the unfunded-critical
\* list of its kind, in the latter exactly when its cost exceeded the budget
\* remaining at its turn; every segment of the tiers that run gets its turn
\* whatever was turned down before it; the unfunded counts are the lengths of
\* the lists; a budget-insufficient warning is present exactly when a critical
\* segment is unfunded.
C3_UnfundedCritical ==
    pc = "returned" /\ ~trace.empty =>
        /\ \A id \in CriticalIds :
              /\ Cardinality(TurnsOf(id)) = 1
              /\ (id \in SelectedIds) # (id \in UnfundedCriticalIds)
              /\ \A i \in TurnsOf(id) :
                    (id \in UnfundedCriticalIds)
                        <=> (RowOf(id).cost > Offers[i].remaining_before)
        /\ UnfundedCriticalIds \subseteq CriticalIds
        /\ IdsIn(result.unfunded_critical_bridges) \subseteq
              {id \in CriticalIds : id[1] = "bridge"}
        /\ IdsIn(result.unfunded_critical_roads) \subseteq
              {id \in CriticalIds : id[1] = "road"}
        /\ \A id \in HighIds \cup (IF call.include_medium_risk THEN OtherIds ELSE {}) :
              /\ Cardinality(TurnsOf(id)) = 1
              /\ \A i \in TurnsOf(id) :
                    (id \in SelectedIds)
                        <=> (RowOf(id).cost <= Offers[i].remaining_before)
        /\ result.critical_bridges_unfunded = Len(result.unfunded_critical_bridges)
        /\ result.critical_roads_unfunded = Len(result.unfunded_critical_roads)
        /\ Cardinality(IdsIn(result.unfunded_critical_bridges))
              = Len(result.unfunded_critical_bridges)
        /\ Cardinality(IdsIn(result.unfunded_critical_roads))
              = Len(result.unfunded_critical_roads)
        /\ (\E i \in DOMAIN result.warnings :
               result.warnings[i].text = "Budget insufficient for critical bridge(s)")
              <=> (\E id \in CriticalIds \ SelectedIds : id[1] = "bridge")
        /\ (\E i \in DOMAIN result.warnings :
               result.warnings[i].text = "Budget insufficient for critical road section(s)")
              <=> (\E id \in CriticalIds \ SelectedIds : id[1] = "road")

\* C3 witness: the scenario of the specification: a critical bridge that costs
\* more than the budget is reported unfunded with a warning, and a high-risk
\* bridge after it is funded
C3_Witness ==
    /\ pc = "returned"
    /\ ~trace.empty
    /\ result.critical_bridges_unfunded = 1
    /\ Len(result.warnings) = 1
    /\ \E id \in HighIds :
          id[1] = "bridge" /\ id \in SelectedIds /\ RowOf(id).cost > 0


\* the risk_cost_ratio of the row offered at turn i
RatioAt(i) == RiskCostRatio(RowOf(Offers[i].item.id).risk_score,
                            RowOf(Offers[i].item.id).cost)
KindAt(i) == Offers[i].item.id[1]
IndexAt(i) == Offers[i].item.id[2]
RiskAt(i) == RowOf(Offers[i].item.id).risk_score
CriticalTurns == {i \in DOMAIN Offers : RiskAt(i) > 85}
HighTurns == {i \in DOMAIN Offers : RiskAt(i) > 70 /\ RiskAt(i) <= 85}
OtherTurns == {i \in DOMAIN Offers : RiskAt(i) <= 70}

\* C4 as claimed: no critical segment is offered the remaining budget before
\* another critical segment, bridge or road, of strictly higher
\* risk_cost_ratio.
C4_CriticalMergedOrder ==
    pc = "returned" /\ ~trace.empty =>
        \A i, j \in CriticalTurns : i < j => ~RcrLess(RatioAt(i), RatioAt(j))

\* C4 as amended: every critical bridge is offered the remaining budget before
\* every critical road, and among the critical bridges, and among the critical
\* roads, none is offered it before another of strictly higher
\* risk_cost_ratio.
C4_CriticalOrderByKind ==
    pc = "returned" /\ ~trace.empty =>
        /\ \A id \in CriticalIds : TurnsOf(id) # {}
        /\ \A i, j \in CriticalTurns : i < j =>
              /\ ~(KindAt(i) = "road" /\ KindAt(j) = "bridge")
              /\ KindAt(i) = KindAt(j) => ~RcrLess(RatioAt(i), RatioAt(j))

\* C4 witness: a critical bridge funded before a critical road of higher
\* ratio, which the bridge's cost leaves unfunded
C4_Witness ==
    /\ pc = "returned"
    /\ ~trace.empty
    /\ \E i, j \in CriticalTurns :
          /\ i < j
          /\ KindAt(i) = "bridge" /\ KindAt(j) = "road"
          /\ RcrLess(RatioAt(i), RatioAt(j))
          /\ Offers[i].funded /\ ~Offers[j].funded
          /\ RowOf(Offers[j].item.id).cost <= call.budget

\* C5: the high-risk pool.  After the critical tier every high-risk bridge and
\* road (70 < risk_score <= 85) has exactly one turn, in descending
\* risk_cost_ratio whatever its kind; of two with equal ratio a bridge comes
\* before a road and, within a kind, the earlier input row first; an item is
\* funded exactly when its cost is <= the budget remaining at its turn, which
\* is the budget less the costs funded before.
C5_HighRiskPool ==
    pc = "returned" /\ ~trace.empty =>
        /\ \A id \in HighIds : Cardinality(TurnsOf(id)) = 1
        /\ \A i \in CriticalTurns, j \in HighTurns : i < j
        /\ \A i, j \in HighTurns : i < j =>
              /\ ~RcrLess(RatioAt(i), RatioAt(j))
              /\ ~RcrLess(RatioAt(j), RatioAt(i)) =>
                    \/ KindAt(i) = "bridge" /\ KindAt(j) = "road"
                    \/ KindAt(i) = KindAt(j) /\ IndexAt(i) < IndexAt(j)
        /\ \A i \in HighTurns :
              /\ Offers[i].funded
                    <=> (RowOf(Offers[i].item.id).cost <= Offers[i].remaining_before)
              /\ Offers[i].funded <=> (Offers[i].item.id \in SelectedIds)
        /\ \A i \in DOMAIN Offers :
              Offers[i].remaining_before =
                  (IF i = 1 THEN call.budget
                   ELSE Offers[i - 1].remaining_before
                        - (IF Offers[i - 1].funded
                           THEN RowOf(Offers[i - 1].item.id).cost ELSE 0))

\* C5 witness: a high-risk road of higher ratio offered, and funded, before a
\* high-risk bridge that the rest of the budget no longer pays for
C5_Witness ==
    /\ pc = "returned"
    /\ ~trace.empty
    /\ \E i, j \in HighTurns :
          /\ i < j
          /\ KindAt(i) = "road" /\ KindAt(j) = "bridge"
          /\ RcrLess(RatioAt(j), RatioAt(i))
          /\ Offers[i].funded /\ ~Offers[j].funded

\* C6: tiers and the medium-risk flag.  A segment is handled as critical
\* exactly when risk_score > 85, as high-risk exactly when 70 < risk_score <=
\* 85, as other otherwise; without include_medium_risk no segment with
\* risk_score <= 70 is offered budget or funded; with it, every segment with
\* risk_score <= 70 is offered budget only after every high-risk segment has
\* had its turn.
C6_TiersAndFlag ==
    pc = "returned" =>
        /\ \A i \in DOMAIN Offers :
              /\ (Offers[i].tier = "critical") <=> (RiskAt(i) > 85)
              /\ (Offers[i].tier = "high") <=> (RiskAt(i) > 70 /\ RiskAt(i) <= 85)
              /\ (Offers[i].tier = "other") <=> (RiskAt(i) <= 70)
        /\ SelectedIds \subseteq PopulationIds
        /\ ~call.include_medium_risk =>
              /\ OtherTurns = {}
              /\ \A id \in SelectedIds : RowOf(id).risk_score > 70
        /\ call.include_medium_risk =>
              /\ \A id \in HighIds : TurnsOf(id) # {}
              /\ \A i \in HighTurns, j \in OtherTurns : i < j

\* C6 witness: without the flag, a segment with risk_score exactly 70 that the
\* remaining budget would pay for is not funded
C6_Witness ==
    /\ pc = "returned"
    /\ ~call.include_medium_risk
    /\ \E id \in PopulationIds :
          /\ RowOf(id).risk_score = 70
          /\ RowOf(id).cost > 0
          /\ RowOf(id).cost <= result.budget_remaining
          /\ id \notin SelectedIds

\* C7: empty input.  When no bridge and no road meets the minimum risk score
\* the call returns the zero result: nothing selected, total_cost 0,
\* budget_remaining = budget, every count and percentage 0, and the one
\* warning that no infrastructure was found.
C7_EmptyInput ==
    pc = "returned" /\ PopulationIds = {} =>
        /\ result.selected_bridges = <<>>
        /\ result.selected_roads = <<>>
        /\ result.total_bridges_selected = 0
        /\ result.total_roads_selected = 0
        /\ result.total_cost = 0
        /\ result.budget_remaining = call.budget
        /\ result.budget_utilization_percent = 0
        /\ result.total_risk_reduction = 0
        /\ result.risk_reduction_percent = 0
        /\ result.avg_risk_score = 0
        /\ result.critical_bridges_funded = 0
        /\ result.critical_bridges_unfunded = 0
        /\ result.critical_roads_funded = 0
        /\ result.critical_roads_unfunded = 0
        /\ result.unfunded_critical_bridges = <<>>
        /\ result.unfunded_critical_roads = <<>>
        /\ Len(result.warnings) = 1
        /\ result.warnings[1].text
              = "No infrastructure found for optimization in this region"

\* C7 witness: rows are cached, the budget is positive, none meets the minimum
C7_Witness ==
    /\ pc = "returned"
    /\ PopulationIds = {}
    /\ cached_bridges # <<>>
    /\ cached_roads # <<>>
    /\ call.budget > 0
    /\ Len(result.warnings) = 1


(***************************************************************************)
(* Properties of the risk scores, checked under SpecRisk.                  *)
(***************************************************************************)
\* the place of a condition label in the order Good < Fair < Poor < Critical
\* (0: a label outside the order)
LabelRank(condition) ==
    CASE condition = Some("Good") -> 1
      [] condition = Some("Fair") -> 2
      [] condition = Some("Poor") -> 3
      [] condition = Some("Critical") -> 4
      [] OTHER -> 0

\* the road rows that differ from r in the PCI alone, and have a lower one
LowerPci(r) ==
    IF r.pci = None THEN {}
    ELSE {[r EXCEPT !.pci = Some(p)] : p \in {q \in PciValues : q < r.pci[1]}}

\* the road rows that differ from r in the condition label alone, and have a
\* worse one
WorseLabel(r) ==
    IF LabelRank(r.condition) = 0 THEN {}
    ELSE {[r EXCEPT !.condition = c] :
             c \in {d \in ConditionLabels : LabelRank(d) > LabelRank(r.condition)}}

\* C8: risk monotone in condition.  A road section that differs from another
\* only by a strictly lower PCI, or only by a worse condition label in the
\* order Good < Fair < Poor < Critical, has a risk score >= the other's.
C8_RoadConditionMonotone ==
    pc = "returned" /\ risk_input.kind = "road" =>
        \A worse \in LowerPci(risk_input) \cup WorseLabel(risk_input) :
            _calculate_road_risk_score(worse) >= risk_score.score

\* C8 witness: a scored road section for which a lower PCI alone, and a worse
\* label alone, each give a strictly higher score
C8_Witness ==
    /\ pc = "returned"
    /\ risk_input.kind = "road"
    /\ \E worse \in LowerPci(risk_input) :
          _calculate_road_risk_score(worse) > risk_score.score
    /\ \E worse \in WorseLabel(risk_input) :
          _calculate_road_risk_score(worse) > risk_score.score

\* the road rows that differ from r in one of AADT, IRI, DMI alone, and have a
\* higher value there
HeavierUse(r) ==
    (IF r.aadt = None THEN {}
     ELSE {[r EXCEPT !.aadt = Some(v)] : v \in {w \in AadtValues : w > r.aadt[1]}})
    \cup
    (IF r.iri = None THEN {}
     ELSE {[r EXCEPT !.iri = Some(v)] : v \in {w \in IriValues : w > r.iri[1]}})
    \cup
    (IF r.dmi = None THEN {}
     ELSE {[r EXCEPT !.dmi = Some(v)] : v \in {w \in DmiValues : w > r.dmi[1]}})

\* the bridges that differ from b in the year built alone, and are older
Older(b) ==
    IF b.year_built = None \/ b.year_built[1] # "year" THEN {}
    ELSE {[b EXCEPT !.year_built = <<"year", y>>] :
             y \in {z \in YearsBuilt : z < b.year_built[2]}}

\* the bridges that differ from b in the value of condition_index alone, and
\* have a lower one
LowerConditionIndex(b) ==
    IF b.condition_index = None THEN {}
    ELSE {[b EXCEPT !.condition_index = <<b.condition_index[1], v>>] :
             v \in {w \in ConditionIndexes : w < b.condition_index[2]}}

\* C9 as claimed: risk monotone in use and age.  Other fields equal, a road
\* section's score does not fall when its AADT, IRI or DMI rises, and a
\* bridge's score does not fall when its age rises or its condition_index
\* falls.
C9_UseAndAgeMonotone ==
    pc = "returned" =>
        /\ risk_input.kind = "road" =>
              \A heavier \in HeavierUse(risk_input) :
                  _calculate_road_risk_score(heavier) >= risk_score.score
        /\ risk_input.kind = "bridge" =>
              \A worse \in Older(risk_input) \cup LowerConditionIndex(risk_input) :
                  _calculate_risk_score(worse) >= risk_score.score

\* C10: every score returned is in [0, 100]: the road score, the bridge score
\* and the overall_score of risk_engine, whatever the inputs, those outside
\* their ranges included.
C10_ScoresInRange ==
    pc = "returned" =>
        /\ risk_score.score >= 0
        /\ risk_score.score <= 100 * risk_score.per_point

\* C10 witness: a road section with a PCI below 0 and all three increments,
\* scored 100
C10_Witness ==
    /\ pc = "returned"
    /\ risk_input.kind = "road"
    /\ risk_input.pci = Some(-10)
    /\ risk_input.iri = Some(41)
    /\ risk_input.dmi = Some(71)
    /\ risk_input.aadt = Some(50001)
    /\ risk_score.score = 100



(***************************************************************************)
(* Properties of the degradation forecast, checked under SpecForecast.     *)
(***************************************************************************)
Forecasted == pc \in {"forecast", "returned"}
Horizon == segment.years
\* the years of the forecast in the preventive-maintenance window [65, 75]
WindowYears == {y \in DOMAIN predicted_pci :
                   predicted_pci[y] >= 650 /\ predicted_pci[y] <= 750}
\* the year find_optimal_intervention returned
OptimalYear ==
    IF segment.kind = "args" THEN intervention.optimal_year
    ELSE intervention.optimal_intervention_year

\* C11: forecast_pci returns a value for each year 0..years, no value is below
\* 0 and no year's value is above the value of the year before.
C11_ForecastFloorMonotone ==
    Forecasted =>
        /\ DOMAIN predicted_pci = 0..Horizon
        /\ \A y \in 0..Horizon : predicted_pci[y] >= 0
        /\ \A y \in 0..(Horizon - 1) : predicted_pci[y + 1] <= predicted_pci[y]

\* C11 witness: a direct call whose forecast reaches the floor before the
\* horizon and stays on it
C11_Witness ==
    /\ pc = "forecast"
    /\ segment.kind = "args"
    /\ segment.current_pci \in 1..1000
    /\ Horizon >= 3
    /\ predicted_pci[Horizon - 2] > 0
    /\ predicted_pci[Horizon - 1] = 0
    /\ predicted_pci[Horizon] = 0

\* the scenario segment: PCI 55, AC, Moderate (Ontario), AADT 15000, 5 years
IsScenario ==
    /\ Horizon = 5
    /\ \/ /\ segment.kind = "args"
          /\ segment.current_pci = 550
          /\ segment.pavement_type = "AC"
          /\ segment.climate_zone = "moderate"
          /\ segment.aadt = Some(15000)
       \/ /\ segment.kind = "road"
          /\ segment.pci = Some(550)
          /\ segment.pavement_type = Some("AC")
          /\ segment.province = "Ontario"
          /\ segment.aadt = Some(15000)

\* C12: in every year whose previous year's PCI is above 0 the predicted PCI
\* strictly decreases; for the scenario segment it strictly decreases in each
\* of the 5 years and the first year with a PCI below 40, the
\* years_to_critical of forecast_degradation, is earlier than year 5.
C12_StrictDecreaseAndScenario ==
    Forecasted =>
        /\ \A y \in 0..(Horizon - 1) :
              predicted_pci[y] > 0 => predicted_pci[y + 1] < predicted_pci[y]
        /\ IsScenario =>
              /\ \A y \in 0..4 : predicted_pci[y + 1] < predicted_pci[y]
              /\ \E y \in 0..4 : predicted_pci[y] < 400
              /\ (pc = "returned" /\ segment.kind = "road") =>
                     intervention.years_to_critical < 5

\* C12 witness: the scenario segment forecast by forecast_degradation: 55.0,
\* 46.2, 35.7, ... with years_to_critical 2
C12_Witness ==
    /\ pc = "returned"
    /\ segment.kind = "road"
    /\ IsScenario
    /\ segment.pavement_age = None
    /\ predicted_pci[0] = 550
    /\ predicted_pci[1] = 462
    /\ predicted_pci[2] = 357
    /\ intervention.years_to_critical = 2

\* C13: when some year of the forecast has its PCI in [65, 75],
\* find_optimal_intervention returns a year of that window whose repair cost,
\* discounted at 3% per year, is minimal among the years of the window (year
\* 0 included); when no year is in the window it returns the first year whose
\* PCI is <= 70.
C13_OptimalInWindow ==
    pc = "returned" =>
        IF WindowYears # {}
        THEN /\ OptimalYear \in WindowYears
             /\ \A z \in WindowYears :
                   DiscountedCost(predicted_pci[OptimalYear], OptimalYear)
                       <= DiscountedCost(predicted_pci[z], z)
        ELSE \A y \in DOMAIN predicted_pci :
                 (/\ predicted_pci[y] <= 700
                  /\ \A z \in 0..(y - 1) : predicted_pci[z] > 700)
                     => OptimalYear = y


(***************************************************************************)
(* Properties of the corridor service, checked under SpecCorridor.         *)
(***************************************************************************)
BundlesReturned ==
    pc = "returned" /\ corridor_call.op = "find_bundle_opportunities"
Bundles == corridor_result
\* the candidate sections of a highway, as the bundling loop walks them
CandidatesOn(hwy) ==
    RepairSections(SelectSeq(_get_road_sections(road_list),
                             LAMBDA s : s.highway = hwy))

\* C14: every bundle find_bundle_opportunities returns has at least 2
\* sections and a total_length_km of at least min_bundle_length_km, whatever
\* the sections, min_bundle_length_km and max_gap_km; a run that fails either
\* condition is not emitted.
C14_BundleMinimum ==
    BundlesReturned =>
        \A i \in DOMAIN Bundles :
            /\ Len(Bundles[i].sections) >= 2
            /\ Bundles[i].sections_needing_repair = Len(Bundles[i].sections)
            /\ Bundles[i].total_length_km >= corridor_call.min_bundle_length_km * 10

\* C14 witness: three sections needing repair on one highway; the first two
\* make the one bundle, of 24.0 km, and the third, 26 km further, is dropped
C14_Witness ==
    /\ BundlesReturned
    /\ corridor_call.max_gap_km = 25
    /\ Len(road_list) = 3
    /\ \A i \in DOMAIN road_list :
          road_list[i].highway = "401" /\ road_list[i].pci = Some(550)
    /\ road_list[3].km_start = Some(5500)
    /\ Len(Bundles) = 1
    /\ Bundles[1].total_length_km = 240

\* C15: in every bundle the sections are on the bundle's highway, are in
\* km_start order, and each starts at most max_gap_km after the end of the one
\* before; no candidate section of the highway lies between two neighbours of
\* a bundle, so two consecutive candidates with a larger gap are never in
\* one bundle.
C15_BundleAdjacency ==
    BundlesReturned =>
        \A i \in DOMAIN Bundles :
            LET b == Bundles[i]
            IN  /\ \A j \in DOMAIN b.sections : b.sections[j].highway = b.highway
                /\ \A j \in 1..(Len(b.sections) - 1) :
                      /\ b.sections[j].km_start <= b.sections[j + 1].km_start
                      /\ b.sections[j + 1].km_start - b.sections[j].km_end
                             <= corridor_call.max_gap_km * 100
                      /\ LET c == CandidatesOn(b.highway)
                         IN  \A k \in DOMAIN c :
                                 ~ /\ c[k].km_start > b.sections[j].km_start
                                   /\ c[k].km_start < b.sections[j + 1].km_start

\* C15 witness: the sections arrive out of km order; the bundle holds the
\* second and the first, in that order, and leaves out the third, whose gap of
\* 26 km exceeds the 25 allowed
C15_Witness ==
    /\ BundlesReturned
    /\ corridor_call.max_gap_km = 25
    /\ Len(road_list) = 3
    /\ \A i \in DOMAIN road_list :
          road_list[i].highway = "401" /\ road_list[i].pci = Some(550)
    /\ road_list[1].km_start = Some(1700)
    /\ road_list[2].km_start = Some(0)
    /\ road_list[3].km_start = Some(5500)
    /\ Len(Bundles) = 1
    /\ Len(Bundles[1].sections) = 2
    /\ Bundles[1].sections[1].id = 2
    /\ Bundles[1].sections[2].id = 1

\* two 12 km sections on one highway, 5 km apart, both PCI 55, bundled with
\* the default arguments
IsBundleScenario ==
    /\ BundlesReturned
    /\ corridor_call.min_bundle_length_km = 10
    /\ corridor_call.max_gap_km = 25
    /\ Len(road_list) = 2
    /\ road_list[1].highway = road_list[2].highway
    /\ road_list[1].pci = Some(550)
    /\ road_list[2].pci = Some(550)
    /\ {<<road_list[i].km_start, road_list[i].km_end>> : i \in 1..2}
           = { <<Some(0), Some(1200)>>, <<Some(1700), Some(2900)>> }

\* C16: for every bundle of n sections of total length L, individual_cost is
\* n mobilizations + L at the individual rate, bundled_cost is one
\* mobilization + L at the bundled rate, savings is their difference and
\* bundled_cost < individual_cost; the scenario returns exactly one bundle,
\* of total length 24 km.
C16_BundleCost ==
    BundlesReturned =>
        /\ \A i \in DOMAIN Bundles :
              LET b == Bundles[i]
                  n == Len(b.sections)
                  L == TotalLength(b.sections)
              IN  /\ n >= 2
                  /\ b.individual_cost = n * 250000 + L * 5500
                  /\ b.bundled_cost = 250000 + L * 4700
                  /\ b.savings = b.individual_cost - b.bundled_cost
                  /\ b.bundled_cost < b.individual_cost
                  /\ b.savings > 0
        /\ IsBundleScenario =>
              /\ Len(Bundles) = 1
              /\ Bundles[1].total_length_km = 240

\* C16 witness: the scenario, whose bundle costs 2 x 250000 + 24 x 550000
\* individually and 250000 + 24 x 470000 bundled
C16_Witness ==
    /\ IsBundleScenario
    /\ Len(Bundles) = 1
    /\ Bundles[1].individual_cost = 13700000
    /\ Bundles[1].bundled_cost = 11530000
    /\ Bundles[1].savings = 2170000


DirectionsReturned ==
    /\ pc = "returned"
    /\ corridor_call.op = "analyze_directional_conditions"
    /\ corridor_result # <<>>
Analysis == corridor_result[1]
\* the sections of a direction, their number and the sum of their PCIs
SectionsOf(d) == SelectSeq(_get_road_sections(road_list), LAMBDA s : s.direction = d)
CountOf(d) == Len(SectionsOf(d))
PciSumOf(d) == SumSeq(SectionsOf(d), "pci")
\* the average PCI of direction a is below that of direction b by gap tenths
\* of a point or more
BelowBy(a, b, gap) ==
    (PciSumOf(b) * CountOf(a) - PciSumOf(a) * CountOf(b))
        >= gap * CountOf(a) * CountOf(b)
\* the direction of the two compared that has the lower average PCI, when
\* the averages are 6 points or more apart
WorseBySix(d) ==
    \/ d = Analysis.direction_1 /\ BelowBy(d, Analysis.direction_2, 60)
    \/ d = Analysis.direction_2 /\ BelowBy(d, Analysis.direction_1, 60)
AverageBelow65(d) == PciSumOf(d) < 650 * CountOf(d)

\* C17 as stated: whenever the average PCIs of the two directions are 6
\* points or more apart, the recommendation is the prioritized repair of the
\* direction with the lower average.
C17_PrioritizeAtSixPoints ==
    DirectionsReturned =>
        \A d \in {Analysis.direction_1, Analysis.direction_2} :
            WorseBySix(d) =>
                /\ Analysis.worse_direction = d
                /\ Analysis.recommendation = "Prioritize lane for immediate repair"

\* C17 as the code has it: whenever the average PCIs of the two directions are
\* 6 points or more apart, the direction with the lower average is the
\* worse_direction; the recommendation is its prioritized repair when its
\* average PCI is below 65, and to monitor it and schedule it first when its
\* average is 65 or more.
C17_PrioritizeBelow65 ==
    DirectionsReturned =>
        \A d \in {Analysis.direction_1, Analysis.direction_2} :
            WorseBySix(d) =>
                /\ Analysis.worse_direction = d
                /\ Analysis.recommendation =
                       IF AverageBelow65(d)
                       THEN "Prioritize lane for immediate repair"
                       ELSE "Monitor and schedule first"

\* C17 witness: westbound averages 55, eastbound 85, and the repair of the
\* westbound lane is prioritized
C17_Witness ==
    /\ DirectionsReturned
    /\ Analysis.worse_direction = "WB"
    /\ WorseBySix("WB")
    /\ PciSumOf("WB") = 550 * CountOf("WB")
    /\ PciSumOf("EB") = 850 * CountOf("EB")
    /\ Analysis.recommendation = "Prioritize lane for immediate repair"


(***************************************************************************)
(* Properties of the winter service, checked under SpecWinter.             *)
(***************************************************************************)
WinterReturned == pc = "returned"
\* the road dict a WinterVulnerability was made from
WinterRoadOf(v) == winter_roads[v.id]
\* the road dict with another PCI and everything else equal
WithPci(road, pci) == [road EXCEPT !.pci = Some(pci)]
\* PCIs below 40 and PCIs of 80 and more
OutsideBandPcis == {100, 300, 390, 399, 800, 850, 1000}
UrgentText == "URGENT: Pre-winter crack sealing prevents crossing"
\* the recommendation of a risk level for a segment that does not cross
OrdinaryText(risk_level) ==
    get_recommendation(risk_level, 0, 0, FALSE)[1]

\* C18: the winter risk follows the PCI vulnerability curve, which peaks for
\* PCIs in [60, 70): a segment with such a PCI gets neither a lower
\* winter_damage_risk_score nor a lower expected_pci_loss than a segment with
\* a PCI below 40, or of 80 or more, and everything else equal.
C18_VulnerableBandHighest ==
    WinterReturned =>
        \A i \in DOMAIN vulnerabilities :
            LET v == vulnerabilities[i]
            IN  (v.current_pci >= 600 /\ v.current_pci < 700) =>
                    \A pci \in OutsideBandPcis :
                        LET other == WinterVulnerability(
                                         WithPci(WinterRoadOf(v), pci), winter_province)
                        IN  /\ other.winter_damage_risk_score <= v.winter_damage_risk_score
                            /\ other.expected_pci_loss <= v.expected_pci_loss

\* C19 as stated: crosses_threshold is true exactly when the label of the
\* current PCI differs from the label of max(0, current - expected loss),
\* threshold_crossed is non-empty exactly then, and every crossing segment
\* gets the urgent recommendation, which no segment that does not cross gets.
C19_CrossingEscalates ==
    WinterReturned =>
        \A i \in DOMAIN vulnerabilities :
            LET v == vulnerabilities[i]
                after == Max(0, v.current_pci - v.expected_pci_loss)
            IN  /\ v.crosses_threshold
                       <=> get_pci_condition(v.current_pci) # get_pci_condition(after)
                /\ v.crosses_threshold <=> v.threshold_crossed # <<>>
                /\ v.crosses_threshold <=> v.recommendation = UrgentText

\* C19 as the code has it: the flag and threshold_crossed are as stated; a
\* crossing segment gets the urgent recommendation exactly when its risk
\* level is severe, and a crossing segment of a lower risk level gets the
\* recommendation of a segment of that level that does not cross.
C19_CrossingEscalatesWhenSevere ==
    WinterReturned =>
        \A i \in DOMAIN vulnerabilities :
            LET v == vulnerabilities[i]
                after == Max(0, v.current_pci - v.expected_pci_loss)
            IN  /\ v.crosses_threshold
                       <=> get_pci_condition(v.current_pci) # get_pci_condition(after)
                /\ v.crosses_threshold <=> v.threshold_crossed # <<>>
                /\ (v.crosses_threshold /\ v.risk_level = "severe")
                       <=> v.recommendation = UrgentText
                /\ v.recommendation # UrgentText
                       => v.recommendation = OrdinaryText(v.risk_level)

\* C19 witness: a segment of PCI 61 with a severe risk loses 19.5 points,
\* crosses from Fair to Poor and gets the urgent recommendation
C19_Witness ==
    /\ WinterReturned
    /\ \E i \in DOMAIN vulnerabilities :
          /\ vulnerabilities[i].current_pci = 610
          /\ vulnerabilities[i].risk_level = "severe"
          /\ vulnerabilities[i].expected_pci_loss = 195
          /\ vulnerabilities[i].threshold_crossed = <<"Fair", "Poor">>
          /\ vulnerabilities[i].recommendation = UrgentText


(***************************************************************************)
(* Properties of the segment repository, checked under SpecRepository.     *)
(***************************************************************************)
RepoCalled == calls > 0
RoadAnalyses ==
    {"forecast_degradation", "find_bundle_opportunities",
     "analyze_directional_conditions", "analyze_winter_vulnerability"}
\* the segment records of the road rows and of the bridge rows, without
\* the time they were cached at
RoadRecords(table) == [i \in DOMAIN table |-> CachedRoadDict(table[i])]
BridgeRecords(table) ==
    [i \in DOMAIN table |->
        [region |-> table[i].region, bridge_id |-> table[i].bridge_id,
         condition |-> table[i].condition]]
\* the rows the call's query matched before the call
MatchedBefore ==
    LET Matches(r) == /\ r.province = repo_call.province
                      /\ repo_call.highway # None =>
                             r.highway # None
                             /\ Contains(lower(r.highway[1]),
                                         lower(repo_call.highway[1]))
    IN  SelectSeq(repo_call.roads_before, Matches)
\* the cache was fresh for the query when the call was made
FreshBefore ==
    \E i \in DOMAIN MatchedBefore :
        repo_call.at - MatchedBefore[i].cached_at <= CACHE_TTL
\* the region of the call had bridge rows before the call
BridgesBefore ==
    \E i \in DOMAIN repo_call.bridges_before :
        repo_call.bridges_before[i].region = repo_call.province
\* the rows the call inserted: those at the end of the table, one for each
\* record returned
InsertedRows(table, n) == SubSeq(table, Len(table) - n + 1, Len(table))

AgePenalty(bridge) ==
    IF bridge.year_built # None /\ bridge.year_built[1] = "year"
    THEN Min(200, 3 * Max(0, bridge.now - bridge.year_built[2] - 30))
    ELSE 0

\* the bridges C23 speaks of: a condition_index absent or in 0..100
IndexInScale(bridge) ==
    \/ bridge.condition_index = None
    \/ bridge.condition_index[2] \in 0..100

YearlyFrom(s) ==
    LET age(year) == IF s.pavement_age = None THEN None
                     ELSE Some(s.pavement_age[1] + year)
        run[year \in 0..s.years] ==
            IF year = 0 THEN [pci |-> s.current_pci * 100000, rate |-> 0]
            ELSE LET rate == calculate_degradation_rate(run[year - 1].pci,
                                 s.pavement_type, s.climate_zone, s.aadt, age(year))
                 IN  [pci |-> Max(0, run[year - 1].pci + rate), rate |-> rate]
    IN  run

\* C24 as claimed: every rate is in [-12, -2]; in forecast_pci the rate of a
\* year is computed from the previous year's PCI and from pavement age + year,
\* an initial pavement age of 0 included; the acceleration factor is 1.0 at
\* PCI 70 and above and does not decrease as the PCI falls.
C24_RatePerYear ==
    (pc = "forecast" /\ segment.kind = "args") =>
        /\ \A year \in 1..segment.years :
              /\ YearlyFrom(segment)[year].rate >= -12000000
              /\ YearlyFrom(segment)[year].rate <= -2000000
              /\ predicted_pci[year]
                     = RoundHalfEven(YearlyFrom(segment)[year].pci, 100000)
        /\ \A p \in PciStarts :
              /\ p >= 700 => get_pci_acceleration_factor(p * 100000) = 10
              /\ \A q \in PciStarts :
                    p <= q => get_pci_acceleration_factor(p * 100000)
                                  >= get_pci_acceleration_factor(q * 100000)

\* the same with the initial pavement age 0 left out
C24_RatePerYearAgedPavement ==
    segment.pavement_age # Some(0) => C24_RatePerYear

\* ---------------------------------------------------------------------------
\* years_to_critical
\* ---------------------------------------------------------------------------

\* C25: years_to_critical is the smallest year of 0..years whose predicted PCI
\* is below 40 (0 when the current PCI is already below 40), and is years + 1
\* exactly when no year of the forecast is below 40.
C25_YearsToCritical ==
    (pc = "returned" /\ segment.kind = "road") =>
        LET f == intervention
            below == {y \in 0..segment.years : f.predicted_pci[y] < 400}
        IN  /\ f.years_to_critical \in 0..(segment.years + 1)
            /\ f.years_to_critical = segment.years + 1 <=> below = {}
            /\ below # {} =>
                  /\ f.years_to_critical \in below
                  /\ \A y \in below : f.years_to_critical <= y
            /\ f.current_pci < 400 => f.years_to_critical = 0

\* C25 witness: a forecast that falls below 40 after the first year and stays
\* below it for a later year too
C25_Witness ==
    /\ pc = "returned"
    /\ segment.kind = "road"
    /\ intervention.years_to_critical >= 2
    /\ intervention.years_to_critical < segment.years
    /\ intervention.predicted_pci[segment.years] < 400

\* C25 witness of the two ends: a current PCI below 40, critical at year 0
C25_WitnessAtStart ==
    /\ pc = "returned"
    /\ segment.kind = "road"
    /\ segment.years > 0
    /\ intervention.current_pci < 400
    /\ intervention.years_to_critical = 0

\* ---------------------------------------------------------------------------
\* The optimal intervention of a forecast
\* ---------------------------------------------------------------------------

C29_WitnessNoSaving ==
    /\ pc = "returned"
    /\ segment.kind = "args"
    /\ segment.current_pci <= 300
    /\ segment.years > 0
    /\ intervention.optimal_year = 0
    /\ intervention.cost_delayed = intervention.cost_optimal

\* ---------------------------------------------------------------------------
\* The accounting of an optimize_budget result
\* ---------------------------------------------------------------------------

\* C28: in a result no bridge and no road is selected more than once, no
\* selected item is in an unfunded-critical list, total_cost is the sum of
\* estimated_repair_cost over the selected bridges and roads, and for bridges
\* and for roads the critical funded and unfunded counts add up to the number
\* of critical segments of that kind in the population.
C28_ResultAccounting ==
    pc = "returned" =>
        /\ Cardinality(IdsIn(result.selected_bridges)) = Len(result.selected_bridges)
        /\ Cardinality(IdsIn(result.selected_roads)) = Len(result.selected_roads)
        /\ SelectedIds \cap UnfundedCriticalIds = {}
        /\ result.total_cost
              = SumSeq(result.selected_bridges, "estimated_repair_cost")
                + SumSeq(result.selected_roads, "estimated_repair_cost")
        /\ result.critical_bridges_funded + result.critical_bridges_unfunded
              = Cardinality({id \in CriticalIds : id[1] = "bridge"})
        /\ result.critical_roads_funded + result.critical_roads_unfunded
              = Cardinality({id \in CriticalIds : id[1] = "road"})

\* C28 witness: a run with a funded critical bridge and an unfunded critical
\* road
C28_Witness ==
    /\ pc = "returned"
    /\ result.critical_bridges_funded = 1
    /\ result.critical_roads_unfunded = 1
    /\ result.total_cost > 0

\* C28 witness of the other tiers: a funded critical segment next to a funded
\* segment that is not critical
C28_WitnessMixed ==
    /\ pc = "returned"
    /\ result.critical_bridges_funded + result.critical_roads_funded = 1
    /\ SelectedIds \ CriticalIds # {}

\* ---------------------------------------------------------------------------
\* The list of bundles
\* ---------------------------------------------------------------------------

\* the ids of the sections of a bundle
SectionIds(bundle) == {bundle.sections[k].id : k \in DOMAIN bundle.sections}

\* the number of sections of a highway with a PCI below 70
BelowSeventyOn(hwy) ==
    Cardinality({s.id : s \in {t \in {_get_road_sections(road_list)[n] : n \in DOMAIN _get_road_sections(road_list)} :
                                  t.highway = hwy /\ t.pci < 700}})

\* C30: in the list find_bundle_opportunities returns every road section is in
\* at most one bundle, every bundled section meets the repair filter of its
\* highway (PCI < 70, or PCI < 80 only when fewer than two sections of that
\* highway have a PCI below 70), the bundle_ids are pairwise distinct, and the
\* list is in descending order of savings.
C30_BundleList ==
    BundlesReturned =>
        /\ \A i, j \in DOMAIN Bundles :
              i # j => /\ SectionIds(Bundles[i]) \cap SectionIds(Bundles[j]) = {}
                       /\ Bundles[i].bundle_id # Bundles[j].bundle_id
        /\ \A i \in DOMAIN Bundles :
              /\ Cardinality(SectionIds(Bundles[i])) = Len(Bundles[i].sections)
              /\ \A k \in DOMAIN Bundles[i].sections :
                    LET s == Bundles[i].sections[k]
                    IN  \/ s.pci < 700
                        \/ s.pci < 800 /\ BelowSeventyOn(s.highway) < 2
        /\ \A i, j \in DOMAIN Bundles :
              i < j => Bundles[i].savings >= Bundles[j].savings

\* C30 witness: two bundles, the one built second (B002, of highway 401) ahead
\* of the one built first (B001, of highway 17, with a section of PCI 75)
C30_Witness ==
    /\ BundlesReturned
    /\ Len(Bundles) = 2
    /\ Bundles[1].bundle_id = 2
    /\ Bundles[2].bundle_id = 1
    /\ Bundles[1].savings > Bundles[2].savings
    /\ \E k \in DOMAIN Bundles[2].sections : Bundles[2].sections[k].pci = 750

\* ---------------------------------------------------------------------------
\* The order of the providers of get_road_conditions
\* ---------------------------------------------------------------------------

\* the call was a road analysis that has returned
RoadsFetched == RepoCalled /\ repo_call.op \in RoadAnalyses

\* the MCP server gave roads to the call
McpGaveRoads == repo_call.mcp # None /\ repo_call.mcp[1] # <<>>

\* C26, the order and the label: the providers are turned to in the order
\* fresh cache, MCP, generated; a later one only when the earlier ones gave no
\* roads or failed; the source label names the provider whose roads are
\* returned.
C26_FallbackOrder ==
    RoadsFetched =>
        /\ repo_call.consulted \in
              { <<"database_cache">>, <<"database_cache", "MCP">>,
                <<"database_cache", "MCP", "generated">> }
        /\ Len(repo_call.consulted) >= 2 => ~FreshBefore
        /\ Len(repo_call.consulted) = 3 => ~McpGaveRoads
        /\ repo_call.source = repo_call.consulted[Len(repo_call.consulted)]
        /\ repo_call.source = "database_cache" =>
              /\ repo_call.roads # <<>>
              /\ \A i \in DOMAIN repo_call.roads :
                    \E j \in DOMAIN MatchedBefore :
                        CachedRoadDict(MatchedBefore[j]) = repo_call.roads[i]
        /\ repo_call.source = "MCP" =>
              /\ Len(repo_call.roads) = Len(repo_call.mcp[1])
              /\ \A i \in DOMAIN repo_call.roads :
                    /\ repo_call.roads[i].highway = repo_call.mcp[1][i].highway
                    /\ repo_call.roads[i].pci = repo_call.mcp[1][i].pci

\* C26 as claimed: the order and the label as above, and the roads that came
\* from MCP or from the generator are in the cache when they are returned,
\* one row for each, cached at the time of the call under their source.
C26_FallbackOrderAndCache ==
    /\ C26_FallbackOrder
    /\ (RoadsFetched /\ repo_call.source \in {"MCP", "generated"}
          /\ repo_call.roads # <<>>) =>
          /\ Len(road_table) >= Len(repo_call.roads)
          /\ LET inserted == InsertedRows(road_table, Len(repo_call.roads))
             IN  /\ RoadRecords(inserted) = repo_call.roads
                 /\ \A i \in DOMAIN inserted :
                        /\ inserted[i].cached_at = repo_call.at
                        /\ inserted[i].data_source = repo_call.source

\* the same for roads that all name a highway
C26_FallbackOrderAndCacheNamed ==
    (RoadsFetched
     /\ \E i \in DOMAIN repo_call.roads : repo_call.roads[i].highway = None)
        \/ C26_FallbackOrderAndCache

\* ---------------------------------------------------------------------------
\* What the cache read returns
\* ---------------------------------------------------------------------------

\* the rows of the table a cache read for this province and highway returns
\* the records of, when it returns any
ReadRows(province, highway) ==
    LET Matches(r) == /\ r.province = province
                      /\ highway # None =>
                             r.highway # None
                             /\ Contains(lower(r.highway[1]), lower(highway[1]))
    IN  IF _get_cached_roads_from_db(road_table, now, province, highway, 200) = None
        THEN <<>>
        ELSE SelectSeq(road_table, Matches)

\* C27 as claimed: at any time, after any fills, the records a cache read
\* returns were all cached within the TTL, and all in one fill: no record of
\* an earlier fill is returned next to records of a later one.
C27_FreshFromOneFill ==
    \A province \in Provinces, highway \in HighwayArgs :
        \A i, j \in DOMAIN ReadRows(province, highway) :
            /\ now - ReadRows(province, highway)[i].cached_at <= CACHE_TTL
            /\ ReadRows(province, highway)[i].cached_at
                   = ReadRows(province, highway)[j].cached_at


\* a read that returns a record older than the TTL next to a fresh one of the
\* same highway
C27_StaleReturned ==
    \E i, j \in DOMAIN ReadRows("Ontario", None) :
        /\ now - ReadRows("Ontario", None)[i].cached_at > CACHE_TTL
        /\ ReadRows("Ontario", None)[j].cached_at = now
        /\ ReadRows("Ontario", None)[i].highway = ReadRows("Ontario", None)[j].highway

(***************************************************************************)
(* Properties of POST /api/optimize, checked under SpecApi.                *)
(***************************************************************************)
\* the entries of scored_assets of the call, by the id of their asset
ScoredOf(id) == ScoredAsset(assets[id], request.priorities)

\* the asset a comes before the asset b in the descending order of the
\* weighted scores, ties in the order of the table
ScoredBefore(a, b) ==
    \/ ScoredOf(a).score > ScoredOf(b).score
    \/ ScoredOf(a).score = ScoredOf(b).score /\ a < b

\* the ids of the assets of the allocations
AllocatedIds == {response.allocations[i].asset_id : i \in DOMAIN response.allocations}

\* what was spent on the assets that come before this one
SpentBefore(id) ==
    LET earlier == SelectSeq(response.allocations,
                             LAMBDA x : ScoredBefore(x.asset_id, id))
    IN  SumSeq(earlier, "cost")

\* C22 without the echo of the budget: the allocations are not empty when
\* some asset's estimated cost is within the budget; they are chosen greedily
\* in descending order of the weighted score, an asset being funded exactly
\* when its cost is within what the assets before it left; their costs add up
\* to total_cost, which is at most the budget.
C22_GreedyAllocations ==
    pc = "returned" =>
        /\ (\E id \in DOMAIN assets : ScoredOf(id).cost <= request.budget)
               => response.allocations # <<>>
        /\ \A i, j \in DOMAIN response.allocations :
               i < j => ScoredBefore(response.allocations[i].asset_id,
                                     response.allocations[j].asset_id)
        /\ \A i \in DOMAIN response.allocations :
               LET a == response.allocations[i]
               IN  /\ a.asset_id \in DOMAIN assets
                   /\ a.cost = ScoredOf(a.asset_id).cost
                   /\ a.score = ScoredOf(a.asset_id).score
        /\ \A id \in DOMAIN assets :
               id \in AllocatedIds
                   <=> ScoredOf(id).cost <= request.budget - SpentBefore(id)
        /\ response.total_cost = SumSeq(response.allocations, "cost")
        /\ response.total_cost <= request.budget

\* C22 as claimed: the response of /api/optimize has a total_budget equal to
\* the budget of the request, and its allocations are as above.
C22_OptimizeResponse ==
    pc = "returned" =>
        /\ "total_budget" \in DOMAIN response
        /\ response.total_budget = request.budget
        /\ C22_GreedyAllocations

\* a response where the greedy loop passed over the asset with the highest
\* score, a bridge, and funded a road after it
C22_SkippedAndFunded ==
    /\ pc = "returned"
    /\ request.budget = 3
    /\ Len(assets) = 2
    /\ Len(response.allocations) = 1
    /\ \E id \in DOMAIN assets :
          /\ id \notin AllocatedIds
          /\ \A other \in AllocatedIds : ScoredBefore(id, other)


(***************************************************************************)
(* C21: invocations running concurrently                                   *)
(***************************************************************************)
\* every invocation has returned
AllDone == \A t \in Threads : threads[t].pc = "done"

\* the orders in which the invocations can run one after the other
ThreadOrders == {o \in [Threads -> Threads] : \A i, j \in Threads : o[i] = o[j] => i = j}

\* what random draws for every invocation, agreeing with what it drew for
\* those that asked the generator
DrawsOfRun ==
    {d \in [Threads -> ThreadDraws] :
        \A t \in Threads : threads[t].draw # 0 => d[t] = threads[t].draw}

\* get_road_conditions of invocation t on a table, the generator drawing pci
CallOf(t, table, pci) ==
    get_road_conditions(table, now, threads[t].province, threads[t].highway, 200, None,
                        _generate_fallback_roads(threads[t].province, threads[t].highway,
                                                 200, MaxSections, pci))

\* the table after the first k invocations of an order ran one after the other
RECURSIVE TableInOrder(_, _, _)
TableInOrder(order, draws, k) ==
    IF k = 0 THEN table_at_start
    ELSE CallOf(order[k], TableInOrder(order, draws, k - 1), draws[order[k]]).table

\* what invocation t returns when it runs alone
ReturnedAlone(t, draws) ==
    LET got == CallOf(t, table_at_start, draws[t])
    IN  Some([roads |-> got.roads, source |-> got.source])

\* what invocation t returns when the invocations run in an order
ReturnedInOrder(t, order, draws) ==
    LET k == CHOOSE i \in Threads : order[i] = t
        got == CallOf(t, TableInOrder(order, draws, k - 1), draws[t])
    IN  Some([roads |-> got.roads, source |-> got.source])

\* no highway of a province has more rows than one fill makes
NoDuplicatedSections ==
    \A i \in DOMAIN road_table :
        Cardinality({j \in DOMAIN road_table :
                        /\ road_table[j].province = road_table[i].province
                        /\ road_table[j].highway = road_table[i].highway}) <= MaxSections

\* C21: when concurrent invocations have all returned, each has returned
\* what it returns when run alone, the rows of CachedRoadCondition are those
\* that some sequential order of the invocations leaves, and no section
\* record is duplicated
C21_ParallelSafety ==
    AllDone =>
        /\ \E order \in ThreadOrders, draws \in DrawsOfRun :
              /\ road_table = TableInOrder(order, draws, MaxThreads)
              /\ \A t \in Threads : threads[t].returned = ReturnedAlone(t, draws)
        /\ NoDuplicatedSections

\* the weaker reading of C21 that lets an invocation return what it returns
\* in the sequential order: the invocations are serializable
C21_Serializable ==
    AllDone =>
        \E order \in ThreadOrders, draws \in DrawsOfRun :
            /\ road_table = TableInOrder(order, draws, MaxThreads)
            /\ \A t \in Threads :
                  threads[t].returned = ReturnedInOrder(t, order, draws)

\* the last part of C21 by itself: concurrent fills leave no duplicated
\* section record
C21_NoDuplicatesAfterFills == AllDone => NoDuplicatedSections

\* two fills of the same province and highway have both committed
C21_TwoFillsCommitted ==
    /\ AllDone
    /\ \A t \in Threads : threads[t].returned[1].source = "generated"
                          /\ threads[t].roads # <<>>
    /\ \A t, u \in Threads : threads[t].highway = threads[u].highway

=============================================================================
